---------------------------- MODULE Spec2Model ----------------------------
(***************************************************************************)
(* Verification model of the Final Stage path tracer: the worker pool of   *)
(* TraceScene, the first-bounce cache, the scene container's dispatch,     *)
(* the frame accumulator and the octree traversal.                         *)
(*                                                                         *)
(* The module holds several specifications over one set of variables.     *)
(* Each specification drives one component; the variables of the other   *)
(* components keep their constructed values.                              *)
(***************************************************************************)
EXTENDS Integers, Naturals, Sequences, FiniteSets, TLC

VARIABLES
  \* ---- TraceScene / TraceThreadFunction (engine.cpp) ----
  width,              \* output->GetWidth()
  height,             \* output->GetHeight()
  concurrency,        \* ::std::thread::hardware_concurrency()
  cache_given,        \* TraceScene's cache argument is not nullptr
  pcMain,             \* position of the main thread inside TraceScene
  thread_idx,         \* loop variable of the spawn loop
  join_idx,           \* position of the join loop in thread_list
  thread_state,       \* per thread: "none", "running", "done", "joined"
  thread_ray_count,   \* per thread ray counter
  written,            \* per thread: pixels passed to output->WritePixel
  cached,             \* per thread: pixels passed to cache->CacheCollision
  total_frame_rays,   \* sum computed by the main thread
  frame_counter,      \* static frame_counter of TraceScene
  frame_count_,       \* DisplayFrame::frame_count_
  hit_pixels,         \* pixels whose primary ray strikes an object
  \* ---- Camera and the scene rendered ----
  fast_render_enabled,\* viewer.fast_render_enabled
  scene,              \* the scene handed to TracePixel
  \* ---- ImagePlaneCache (engine.h, engine.cpp) ----
  cache_state,        \* "none" before construction, "live", or "failed"
  invalidation_cache_,\* per pixel index: entry is cached
  collision_cache_,   \* per pixel index: stored ObjectCollision
  cached_since,       \* history: CacheCollision called since last Invalidate
  first_hit,          \* history: descriptors of the first cached hit
  last_step,          \* history: what the last depth-0 TraceStep did
  \* ---- DisplayFrame (frame.h, frame.cpp) ----
  render_target_,     \* per pixel index: running mean
  count_buffer_,      \* per pixel index: sample count
  display_buffer_,    \* per pixel index: 8-bit display colour
  normal_buffer_,     \* per pixel index: normal of the primary hit
  depth_buffer_,      \* per pixel index: depth of the primary hit
  material_id_buffer_,\* per pixel index: material id of the primary hit
  filtered_render_target_,
  writes,             \* history: WritePixel calls per pixel since Reset
  sampled,            \* history: colours written per pixel since Reset
  cleared,            \* history: samples discarded by the latest Reset
  \* ---- Scene container and scene BVH (scene.h, scene.cpp) ----
  object_list_,       \* Scene::object_list_
  is_tree_valid_,     \* Scene::is_tree_valid_
  object_tree_,       \* root node of Scene::object_tree_, Null when none
  tree_objects_,      \* history: the object list BuildBvh last indexed
  last_call,          \* history: the latest Add*Object / Optimize call
  ideal_depth,        \* history: ideal_depth when the latest call was Optimize
  trajectory,         \* the ray handed to the latest Trace
  last_trace,         \* history: outcome of the latest Scene::Trace
  \* ---- MeshObject and mesh BVH (mesh.h, mesh.cpp) ----
  mesh_loaded,        \* the MeshObject has been constructed
  face_list,          \* MeshObject::face_list
  vertices_,          \* size of MeshObject::vertices_
  shape_tree,         \* root node of MeshObject::shape_tree, Null when none
  incoming,           \* hit_info->param handed to MeshBvh::Trace
  last_mesh_trace,    \* history: outcome of the latest MeshBvh::Trace
  \* ---- One TracePixel call followed step by step (engine.cpp) ----
  path_phase,         \* "idle", "call", "shade" or "done"
  path_depth,         \* depth argument of the TraceStep call that is running
  path_pixel,         \* <<pixel, jitter draw>> of the sample
  path_hits,          \* objects struck by the calls that have not returned
  path_returned,      \* value returned by the latest call that returned
  path_traces,        \* history: scene->Trace calls made for the sample
  path_result,        \* the TraceResult handed to TracePixel
  \* ---- Scene file loader and object materials (scene.cpp, object.cpp) ----
  material_list,      \* LoadScene's material_list: name -> variant built
  object_materials,   \* per object added: the variant material_ points to
  sky_material_,      \* the variant Scene::sky_material_ points to
  last_material,      \* history: the latest material block and its variant
  \* ---- The texture of the material being built (material.cpp) ----
  diffuse_map_,       \* DiffuseMaterial::diffuse_map_ (a Texture)
  diffuse_,           \* Material::diffuse_
  texture_scale_,     \* DiffuseMaterial::texture_scale_
  texture_load,       \* history: the latest LoadBitmap call and its value
  material_diffuse    \* history: the latest SampleDiffuse and its value

renderVars == <<width, height, concurrency, cache_given, pcMain, thread_idx,
                join_idx, thread_state, thread_ray_count, written, cached,
                total_frame_rays, frame_counter, frame_count_, hit_pixels>>

worldVars == <<fast_render_enabled, scene>>

cacheVars == <<cache_state, invalidation_cache_, collision_cache_,
               cached_since, first_hit, last_step>>

frameVars == <<render_target_, count_buffer_, display_buffer_, normal_buffer_,
               depth_buffer_, material_id_buffer_, filtered_render_target_,
               writes, sampled, cleared>>

sceneVars == <<object_list_, is_tree_valid_, object_tree_, tree_objects_,
               last_call, ideal_depth, trajectory, last_trace>>

meshVars == <<mesh_loaded, face_list, vertices_, shape_tree, incoming,
              last_mesh_trace>>

pathVars == <<path_phase, path_depth, path_pixel, path_hits, path_returned,
              path_traces, path_result>>

loadVars == <<material_list, object_materials, sky_material_, last_material>>

textureVars == <<diffuse_map_, diffuse_, texture_scale_, texture_load,
                 material_diffuse>>

vars == <<renderVars, worldVars, cacheVars, frameVars, sceneVars, meshVars,
          pathVars, loadVars, textureVars>>

\* What the actions of one component leave alone.
exceptRender == <<scene, cacheVars, frameVars, sceneVars, meshVars,
  pathVars, loadVars, textureVars>>
exceptCache == <<renderVars, worldVars, frameVars, sceneVars, meshVars,
  pathVars, loadVars, textureVars>>
exceptFrame == <<renderVars, worldVars, cacheVars, sceneVars, meshVars,
  pathVars, loadVars, textureVars>>
exceptCacheFrame == <<renderVars, worldVars, sceneVars, meshVars,
  pathVars, loadVars, textureVars>>
exceptScene == <<renderVars, worldVars, cacheVars, frameVars, meshVars,
  pathVars, loadVars, textureVars>>
exceptPath == <<renderVars, worldVars, cacheVars, frameVars, sceneVars,
                meshVars, loadVars, textureVars>>
exceptLoad == <<renderVars, worldVars, cacheVars, frameVars, sceneVars,
                meshVars, pathVars, textureVars>>
exceptTexture == <<renderVars, worldVars, cacheVars, frameVars, sceneVars,
                   meshVars, pathVars, loadVars>>
exceptMesh == <<renderVars, worldVars, cacheVars, frameVars, sceneVars,
  pathVars, loadVars, textureVars>>

-----------------------------------------------------------------------------
(* Bounds of the model. *)

MaxHeight == 6
MaxWidth == 2
MaxWorkers == 3
\* One larger frame, rendered on a machine with many hardware threads.
WideHeight == 62
WideWorkers == 14
\* The frame of the frame and cache specifications is one row of FrameW
\* pixels; MaxSamples samples are followed after each Reset.
FrameW == 2
MaxSamples == 3

-----------------------------------------------------------------------------
(***************************************************************************)
(* float32 arithmetic of TraceThreadFunction.  A float32 value v >= 0 is   *)
(* held as the integer v * 2^25.  Every float32 in [1/4, 64) is a multiple *)
(* of 2^-25, so the band arithmetic of the frames modelled here is exact:  *)
(* each operation is the real result rounded to 24 significant bits,       *)
(* nearest-even, as IEEE 754 single precision does.                        *)
(***************************************************************************)

F32One == 2^25

\* Spacing of the float32 grid around the non-negative scaled value k: a
\* float32 has 24 significant bits.
F32Ulp(k) ==
  CASE k < 2^24 -> 1
    [] k < 2^25 -> 2
    [] k < 2^26 -> 4
    [] k < 2^27 -> 8
    [] k < 2^28 -> 16
    [] k < 2^29 -> 32
    [] k < 2^30 -> 64
    [] OTHER -> 128

\* The rational x / d rounded to the nearest float32, ties to even.
F32Round(x, d) ==
  LET u == F32Ulp(x \div d)
      q == x \div (d * u)
      r == x % (d * u)
      up == (2 * r > d * u) \/ (2 * r = d * u /\ q % 2 = 1)
  IN  IF up THEN (q + 1) * u ELSE q * u

\* (uint32) conversion of a non-negative float32: truncation.
F32ToUint(f) == f \div F32One

-----------------------------------------------------------------------------
(***************************************************************************)
(* TraceThreadFunction: the band of one worker.                            *)
(***************************************************************************)

\* float32 bin_height = height / hardware_concurrency()
BinHeight(h, b) == F32Round(h * F32One, b)

\* float32 y_start = bin_height * thread_index
YStart(h, b, k) == F32Round(BinHeight(h, b) * k, 1)

\* float32 y_stop = bin_height * (thread_index + 1), replaced by height for
\* the last thread.
YStop(h, b, k) ==
  IF k = b - 1 THEN h * F32One ELSE F32Round(BinHeight(h, b) * (k + 1), 1)

\* for (float32 j = y_start; j < y_stop; j++): the rows (uint32) j that the
\* loop hands to TracePixel and WritePixel.
RECURSIVE BandRows(_, _)
BandRows(j, y_stop) ==
  IF j < y_stop
    THEN {F32ToUint(j)} \cup BandRows(F32Round(j + F32One, 1), y_stop)
    ELSE {}

\* for (float32 i = 0; i < width; i++) inside the row loop.
BandPixels(w, h, b, k) ==
  (0 .. (w - 1)) \X BandRows(YStart(h, b, k), YStop(h, b, k))

\* result.ray_count of TracePixel is 1 on a primary miss and 2 on a primary
\* hit (one bounce) in the scenes of the render specification.
\* thread_ray_count->at(thread_index) += result.ray_count over a band.
SumRays(ps) == Cardinality(ps) + Cardinality(ps \cap hit_pixels)

Threads == 0 .. (concurrency - 1)
AllPixels == (0 .. (width - 1)) \X (0 .. (height - 1))

-----------------------------------------------------------------------------
(* Frames, machines and scenes the render specification starts from. *)

SmallConfigs ==
  [w : 1 .. MaxWidth, h : 1 .. MaxHeight, b : 1 .. MaxWorkers,
   cache : BOOLEAN, fast : BOOLEAN, pattern : 1 .. 3]

WideConfigs ==
  {[w |-> 1, h |-> WideHeight, b |-> WideWorkers, cache |-> TRUE,
    fast |-> FALSE, pattern |-> 2]}

PatternOf(c) ==
  LET all == (0 .. (c.w - 1)) \X (0 .. (c.h - 1))
  IN  CASE c.pattern = 1 -> {}
        [] c.pattern = 2 -> all
        [] OTHER -> {p \in all : (p[1] + p[2]) % 2 = 0}

InitRender ==
  \E c \in SmallConfigs \cup WideConfigs :
    /\ width = c.w
    /\ height = c.h
    /\ concurrency = c.b
    /\ cache_given = c.cache
    /\ fast_render_enabled = c.fast
    /\ hit_pixels = PatternOf(c)
    /\ pcMain = "spawn"
    /\ thread_idx = 0
    /\ join_idx = 0
    /\ thread_state = [k \in 0 .. (c.b - 1) |-> "none"]
    /\ thread_ray_count = [k \in 0 .. (c.b - 1) |-> 0]
    /\ written = [k \in 0 .. (c.b - 1) |-> {}]
    /\ cached = [k \in 0 .. (c.b - 1) |-> {}]
    /\ total_frame_rays = 0
    /\ frame_counter = 0
    /\ frame_count_ = 0

\* TraceScene, spawn loop: thread_ray_count[thread_idx] = 0 and
\* thread_list.emplace_back(&TraceThreadFunction, ..., thread_idx, ...).
SpawnThread ==
  /\ pcMain = "spawn"
  /\ thread_idx < concurrency
  /\ thread_ray_count' = [thread_ray_count EXCEPT ![thread_idx] = 0]
  /\ thread_state' = [thread_state EXCEPT ![thread_idx] = "running"]
  /\ thread_idx' = thread_idx + 1
  /\ pcMain' = IF thread_idx + 1 = concurrency THEN "join" ELSE "spawn"
  /\ UNCHANGED <<width, height, concurrency, cache_given, join_idx, written,
                 cached, total_frame_rays, frame_counter, frame_count_,
                 hit_pixels, fast_render_enabled, exceptRender>>

\* TraceThreadFunction run by thread k: every pixel of its band is traced,
\* counted and written; a primary hit is stored in the cache when one is
\* supplied.
TraceThreadFunction(k) ==
  /\ thread_state[k] = "running"
  /\ \E band \in {BandPixels(width, height, concurrency, k)} :
         /\ written' = [written EXCEPT ![k] = band]
         /\ cached' = [cached EXCEPT
                         ![k] = IF cache_given THEN band \cap hit_pixels ELSE {}]
         /\ thread_ray_count' =
              [thread_ray_count EXCEPT ![k] = thread_ray_count[k] + SumRays(band)]
  /\ thread_state' = [thread_state EXCEPT ![k] = "done"]
  /\ UNCHANGED <<width, height, concurrency, cache_given, pcMain, thread_idx,
                 join_idx, total_frame_rays, frame_counter, frame_count_,
                 hit_pixels, fast_render_enabled, exceptRender>>

\* A join loop that does not wait for the thread to end.
JoinThreadNoWait ==
  /\ pcMain = "join"
  /\ join_idx < concurrency
  /\ thread_state' = [thread_state EXCEPT ![join_idx] = "joined"]
  /\ join_idx' = join_idx + 1
  /\ pcMain' = IF join_idx + 1 = concurrency THEN "sum" ELSE "join"
  /\ UNCHANGED <<width, height, concurrency, cache_given, thread_idx,
                 thread_ray_count, written, cached, total_frame_rays,
                 frame_counter, frame_count_, hit_pixels,
                 fast_render_enabled, exceptRender>>

\* TraceScene, join loop: thread_.join() returns once the thread has ended.
JoinThread ==
  /\ pcMain = "join"
  /\ join_idx < concurrency
  /\ thread_state[join_idx] = "done"
  /\ thread_state' = [thread_state EXCEPT ![join_idx] = "joined"]
  /\ join_idx' = join_idx + 1
  /\ pcMain' = IF join_idx + 1 = concurrency THEN "sum" ELSE "join"
  /\ UNCHANGED <<width, height, concurrency, cache_given, thread_idx,
                 thread_ray_count, written, cached, total_frame_rays,
                 frame_counter, frame_count_, hit_pixels,
                 fast_render_enabled, exceptRender>>

RECURSIVE SumCounters(_, _)
SumCounters(counts, n) ==
  IF n = 0 THEN 0 ELSE counts[n - 1] + SumCounters(counts, n - 1)

\* TraceScene after the join loop: the counters are summed unless fast
\* render is on, frame_counter is advanced and handed to the frame.
FinishTraceScene ==
  /\ pcMain = "sum"
  /\ total_frame_rays' =
       IF fast_render_enabled THEN total_frame_rays
       ELSE SumCounters(thread_ray_count, concurrency)
  /\ frame_counter' =
       IF fast_render_enabled THEN frame_counter ELSE frame_counter + 1
  /\ frame_count_' = frame_counter'
  /\ pcMain' = "done"
  /\ UNCHANGED <<width, height, concurrency, cache_given, thread_idx, join_idx,
                 thread_state, thread_ray_count, written, cached,
                 hit_pixels, fast_render_enabled, exceptRender>>

NextRender ==
  \/ SpawnThread
  \/ \E k \in Threads : TraceThreadFunction(k)
  \/ JoinThread
  \/ FinishTraceScene
-----------------------------------------------------------------------------
(***************************************************************************)
(* DisplayFrame.  Colour channels are float32 values held as multiples of   *)
(* 2^-26; buffers are indexed by y * width_ + x as in the code.            *)
(***************************************************************************)

Null == [null |-> TRUE]

\* The frame modelled is one row of FrameW pixels.
FrameIndices == 0 .. (FrameW - 1)
FramePixels == (0 .. (FrameW - 1)) \X {0}

\* y * width_ + x
PixelIndex(x, y) == y * FrameW + x

ColorOne == 2^26
Black == <<0, 0, 0>>
White == <<ColorOne, ColorOne, ColorOne>>

\* Smallest channel value shown as display byte v, for v = 1 .. 255:
\* (uint8) (255.0 * pow(c, 1.0 / 2.2) + 0.5) >= v.
GammaThresholds ==
  <<
     75, 832, 2558, 5363, 9321, 14495, 20932, 28677,
     37768, 48238, 60119, 73439, 88226, 104503, 122293, 141619,
     162502, 184959, 209012, 234676, 261970, 290909, 321509, 353787,
     387755, 423429, 460822, 499947, 540817, 583446, 627844, 674023,
     721997, 771774, 823368, 876787, 932043, 989146, 1048106, 1108933,
     1171636, 1236225, 1302709, 1371096, 1441397, 1513619, 1587772, 1663863,
     1741901, 1821894, 1903850, 1987776, 2073682, 2161573, 2251458, 2343345,
     2437239, 2533150, 2631083, 2731045, 2833044, 2937087, 3043180, 3151329,
     3261542, 3373824, 3488182, 3604623, 3723152, 3843776, 3966501, 4091333,
     4218278, 4347341, 4478528, 4611846, 4747300, 4884896, 5024638, 5166533,
     5310586, 5456803, 5605188, 5755748, 5908487, 6063411, 6220524, 6379832,
     6541340, 6705053, 6870975, 7039113, 7209470, 7382051, 7556862, 7733907,
     7913190, 8094717, 8278492, 8464519, 8652804, 8843350, 9036162, 9231245,
     9428603, 9628240, 9830161, 10034371, 10240872, 10449670, 10660769, 10874173,
     11089885, 11307912, 11528255, 11750920, 11975911, 12203231, 12432884, 12664875,
     12899207, 13135884, 13374911, 13616291, 13860027, 14106124, 14354586, 14605415,
     14858617, 15114194, 15372151, 15632490, 15895216, 16160332, 16427842, 16697750,
     16970058, 17244771, 17521892, 17801425, 18083372, 18367738, 18654525, 18943738,
     19235380, 19529453, 19825962, 20124910, 20426300, 20730135, 21036418, 21345154,
     21656345, 21969994, 22286105, 22604680, 22925724, 23249238, 23575227, 23903694,
     24234640, 24568071, 24903988, 25242395, 25583295, 25926691, 26272586, 26620983,
     26971884, 27325294, 27681215, 28039649, 28400600, 28764071, 29130065, 29498584,
     29869631, 30243210, 30619323, 30997973, 31379163, 31762895, 32149173, 32537999,
     32929377, 33323308, 33719796, 34118843, 34520452, 34924626, 35331368, 35740680,
     36152565, 36567025, 36984064, 37403683, 37825887, 38250676, 38678054, 39108024,
     39540588, 39975749, 40413509, 40853870, 41296836, 41742409, 42190592, 42641387,
     43094796, 43550822, 44009468, 44470736, 44934628, 45401148, 45870297, 46342077,
     46816493, 47293545, 47773237, 48255570, 48740547, 49228171, 49718444, 50211368,
     50706946, 51205180, 51706072, 52209625, 52715842, 53224723, 53736273, 54250492,
     54767384, 55286951, 55809195, 56334118, 56861723, 57392011, 57924986, 58460649,
     58999003, 59540049, 60083791, 60630230, 61179369, 61731209, 62285754, 62843005,
     63402964, 63965633, 64531016, 65099113, 65669927, 66243461, 66819716
  >>

saturate(c) == IF c < 0 THEN 0 ELSE IF c > ColorOne THEN ColorOne ELSE c

\* The largest v in lo .. hi whose threshold is at most c (lo if none).
RECURSIVE GammaSearch(_, _, _)
GammaSearch(c, lo, hi) ==
  IF lo = hi THEN lo
  ELSE LET mid == (lo + hi + 1) \div 2
       IN  IF GammaThresholds[mid] <= c THEN GammaSearch(c, mid, hi)
                                        ELSE GammaSearch(c, lo, mid - 1)

\* 255.0 * pow(saturate(c), 1.0 / 2.2) + 0.5, truncated to uint8.
DisplayByte(c) == GammaSearch(saturate(c), 0, 255)

\* vector3 * uint32 on one channel: a float32 product.
ScaleChannel(v, n) == F32Round(v * n, 1)

\* vector3 + vector3 on one channel: a float32 sum.
AddChannel(v, w) == F32Round(v + w, 1)

\* vector3 /= uint32 on one channel: a float32 quotient.
DivideChannel(v, n) == F32Round(v, n)

\* A WritePixel that multiplies the mean by the count read after its
\* increment.
MeanChannelCountAfter(mean, count, sample) ==
  DivideChannel(AddChannel(ScaleChannel(mean, count + 1), sample), count + 1)

\* One channel of render_target_ * count + pixel, then /= count + 1.
MeanChannel(mean, count, sample) ==
  DivideChannel(AddChannel(ScaleChannel(mean, count), sample), count + 1)

\* A WritePixel that leaves the sample count alone.
NextCountKept(count) == count

\* ++(*current_pixel_count); the counts of the model stay far below 2^32.
NextCount(count) == count + 1

\* DisplayFrame::WritePixel(const vector3&, x, y) applied to the buffers
\* <<render_target_, count_buffer_, display_buffer_>>.
WritePixelColor(bufs, pixel, x, y) ==
  LET i == PixelIndex(x, y)
      count == bufs[2][i]
      new_pixel == <<MeanChannel(bufs[1][i][1], count, pixel[1]),
                     MeanChannel(bufs[1][i][2], count, pixel[2]),
                     MeanChannel(bufs[1][i][3], count, pixel[3])>>
  IN  << [bufs[1] EXCEPT ![i] = new_pixel],
         [bufs[2] EXCEPT ![i] = NextCount(count)],
         [bufs[3] EXCEPT ![i] = <<DisplayByte(new_pixel[1]),
                                  DisplayByte(new_pixel[2]),
                                  DisplayByte(new_pixel[3])>>] >>

\* TraceResult() as constructed.
EmptyResult ==
  [color |-> Black, normal |-> <<0, 0, 0>>, depth |-> 0, material_id |-> 0,
   ray_count |-> 0]

ZeroColors == [i \in FrameIndices |-> Black]
ZeroNumbers == [i \in FrameIndices |-> 0]

\* WritePixel calls made on the frame since the last Reset, over the
\* pixels of index 0 .. i.
RECURSIVE SamplesTaken(_)
SamplesTaken(i) == IF i < 0 THEN 0 ELSE writes[i] + SamplesTaken(i - 1)

\* DisplayFrame::DisplayFrame ends with Reset().
InitFrame ==
  /\ render_target_ = ZeroColors
  /\ count_buffer_ = ZeroNumbers
  /\ display_buffer_ = ZeroColors
  /\ normal_buffer_ = ZeroColors
  /\ depth_buffer_ = ZeroNumbers
  /\ material_id_buffer_ = ZeroNumbers
  /\ filtered_render_target_ = ZeroColors
  /\ writes = ZeroNumbers
  /\ sampled = [i \in FrameIndices |-> {}]
  /\ cleared = 0

\* A Reset that leaves count_buffer_ as it is.
ResetFrameKeepingCounts ==
  /\ render_target_' = ZeroColors
  /\ count_buffer_' = count_buffer_
  /\ display_buffer_' = ZeroColors
  /\ normal_buffer_' = ZeroColors
  /\ depth_buffer_' = ZeroNumbers
  /\ material_id_buffer_' = ZeroNumbers
  /\ filtered_render_target_' = ZeroColors
  /\ writes' = ZeroNumbers
  /\ sampled' = [i \in FrameIndices |-> {}]
  /\ cleared' = SamplesTaken(FrameW - 1)

\* DisplayFrame::Reset: every buffer is zeroed.
ResetFrame ==
  /\ render_target_' = ZeroColors
  /\ count_buffer_' = ZeroNumbers
  /\ display_buffer_' = ZeroColors
  /\ normal_buffer_' = ZeroColors
  /\ depth_buffer_' = ZeroNumbers
  /\ material_id_buffer_' = ZeroNumbers
  /\ filtered_render_target_' = ZeroColors
  /\ writes' = ZeroNumbers
  /\ sampled' = [i \in FrameIndices |-> {}]
  /\ cleared' = SamplesTaken(FrameW - 1)

\* DisplayFrame::Reset
Reset ==
  /\ ResetFrame
  /\ UNCHANGED exceptFrame

\* 0.9f
Float09 == F32Round(9 * ColorOne, 10)

\* Colours handed to WritePixel.
SampleColors == {Black, White, <<Float09, ColorOne \div 2, 0>>}

\* DisplayFrame::WritePixel(const vector3&, x, y) on the frame's buffers.
WriteColor(x, y, pixel) ==
  /\ \E bufs \in {WritePixelColor(<<render_target_, count_buffer_,
                                    display_buffer_>>, pixel, x, y)} :
       /\ render_target_' = bufs[1]
       /\ count_buffer_' = bufs[2]
       /\ display_buffer_' = bufs[3]
  /\ writes' = [writes EXCEPT ![PixelIndex(x, y)] = @ + 1]
  /\ sampled' = [sampled EXCEPT ![PixelIndex(x, y)] = @ \cup {pixel}]
  /\ UNCHANGED cleared

\* DisplayFrame::WritePixel(const TraceResult&, x, y) on the frame's
\* buffers: the colour goes through WritePixel(const vector3&, x, y), then
\* the descriptors of the pixel are overwritten.
WriteResult(x, y, result) ==
  /\ WriteColor(x, y, result.color)
  /\ normal_buffer_' = [normal_buffer_ EXCEPT ![PixelIndex(x, y)] = result.normal]
  /\ depth_buffer_' = [depth_buffer_ EXCEPT ![PixelIndex(x, y)] = result.depth]
  /\ material_id_buffer_' =
       [material_id_buffer_ EXCEPT ![PixelIndex(x, y)] = result.material_id]
  /\ UNCHANGED filtered_render_target_

\* The model follows a frame up to MaxSamples samples after each Reset.
MaySample == SamplesTaken(FrameW - 1) < MaxSamples

\* A caller writes one colour sample.
WritePixel(x, y, pixel) ==
  /\ MaySample
  /\ WriteColor(x, y, pixel)
  /\ UNCHANGED <<normal_buffer_, depth_buffer_, material_id_buffer_,
                 filtered_render_target_>>
  /\ UNCHANGED exceptFrame

\* TraceResults handed to WritePixel by a caller.
SampleResults ==
  {[color |-> c, normal |-> <<0, 0, -ColorOne>>, depth |-> 12,
    material_id |-> 11, ray_count |-> 1] : c \in SampleColors}

\* A caller writes one TraceResult.
WritePixelResult(x, y, result) ==
  /\ MaySample
  /\ WriteResult(x, y, result)
  /\ UNCHANGED exceptFrame

NextFrame ==
  \/ \E p \in FramePixels : \E c \in SampleColors : WritePixel(p[1], p[2], c)
  \/ \E p \in FramePixels : \E r \in SampleResults :
       WritePixelResult(p[1], p[2], r)
  \/ Reset

-----------------------------------------------------------------------------
(***************************************************************************)
(* Scenes of the cache specification.  A scene says which object the       *)
(* primary ray of a pixel strikes for each jitter draw (0: none), which     *)
(* object the n-th reflection ray of a path that starts on an object       *)
(* strikes, and the material of each object.                               *)
(***************************************************************************)

Jitters == 1 .. 2
SceneObjects == 1 .. 2

kMaximumTraceDepth == 32
ZFar == 10000

Reflections == 1 .. kMaximumTraceDepth

\* An object edge crosses pixel (0,0): the jitter decides which object the
\* primary ray strikes.  Object 1 is a light, object 2 a mirror facing it.
EdgeScene ==
  [primary |-> [p \in FramePixels |->
                  [a \in Jitters |-> IF p = <<0, 0>> THEN a
                                     ELSE IF a = 1 THEN 1 ELSE 0]],
   after |-> [o \in SceneObjects |->
                [n \in Reflections |-> IF o = 2 /\ n = 1 THEN 1 ELSE 0]],
   kind |-> (1 :> "Light" @@ 2 :> "Mirror")]

\* Two mirrors facing each other fill the view.
MirrorScene ==
  [primary |-> [p \in FramePixels |-> [a \in Jitters |-> 1]],
   after |-> [o \in SceneObjects |->
                [n \in Reflections |-> IF n % 2 = 1 THEN 3 - o ELSE o]],
   kind |-> (1 :> "Mirror" @@ 2 :> "Mirror")]

\* No geometry at all.
EmptyScene ==
  [primary |-> [p \in FramePixels |-> [a \in Jitters |-> 0]],
   after |-> [o \in SceneObjects |-> [n \in Reflections |-> 0]],
   kind |-> (1 :> "Light" @@ 2 :> "Light")]

Scenes == {EdgeScene, MirrorScene, EmptyScene}

SkyMaterialId == 7
MaterialId(o) == 10 + o
ObjectNormal(o) == IF o = 1 THEN <<0, 0, -1>> ELSE <<0, 1, 0>>
\* trajectory->dir.normalize() of the primary ray.
RayDirection == <<0, 0, 1>>
SkyEmissive == <<0, ColorOne \div 2, ColorOne>>
Emissive(o) == White
Diffuse(o) == White

\* The collision scene.Trace reports for object o struck by a ray drawn
\* with jitter a: the depth of field moves the ray start, so the point
\* struck depends on the draw.
Collide(o, a) ==
  [object |-> o, point |-> <<o, a>>, surface_normal |-> ObjectNormal(o),
   surface_material |-> MaterialId(o), is_internal |-> FALSE]

\* collision_point.distance(trajectory->start) for the ray start of draw a.
Distance(point, a) == 10 * point[1] + point[2] + a

\* ObjectCollision() as constructed.
EmptyCollision ==
  [object |-> 0, point |-> <<0, 0>>, surface_normal |-> <<0, 0, 0>>,
   surface_material |-> 0, is_internal |-> FALSE]

\* Scene::SampleSky: the sky material's sample times 3.
SampleSky == <<3 * SkyEmissive[1], 3 * SkyEmissive[2], 3 * SkyEmissive[3]>>

\* Material::WillUseIndirectLight of LightMaterial and MirrorMaterial.
WillUseIndirectLight(kind) == kind = "Mirror"

\* One channel of light_color * diffuse_, for diffuse_ 0 or 1.
Modulate(diffuse, light) == IF diffuse = ColorOne THEN light ELSE 0

\* Material::Sample: a light returns its emission, a mirror
\* light_color * diffuse_ (diffuse_ has channels 0 or 1 here).
Sample(kind, o, light_color) ==
  IF kind = "Light" THEN Emissive(o)
  ELSE <<Modulate(Diffuse(o)[1], light_color[1]),
         Modulate(Diffuse(o)[2], light_color[2]),
         Modulate(Diffuse(o)[3], light_color[3])>>

-----------------------------------------------------------------------------
(***************************************************************************)
(* TraceStep.  A call makes at most one recursive call, so the calls of    *)
(* one pixel sample form a chain of levels depth, depth + 1, ...; the      *)
(* chain ends at the first level that returns without recursing.  first    *)
(* is the object of the collision of level depth (0: none), cached tells   *)
(* whether that collision came from FetchCollision, a is the jitter draw.  *)
(***************************************************************************)

\* The object struck at level d of the chain (0: none).
ObjectAt(sc, depth, first, d) ==
  IF d = depth \/ first = 0 THEN first ELSE sc.after[first][d - depth]

\* A TraceStep without its depth limit.
ReturnsEarlyFastOnly(fast, d) == fast /\ d > 1

\* A TraceStep whose fast-render return comes one bounce late.
ReturnsEarlyLate(fast, d) == d >= kMaximumTraceDepth \/ (fast /\ d > 2)

\* The two early returns of TraceStep.
ReturnsEarly(fast, d) == d >= kMaximumTraceDepth \/ (fast /\ d > 1)

\* Level d makes no recursive call: it returns early, its ray strikes
\* nothing, or the material struck takes no indirect light.
IsLast(sc, fast, depth, first, d) ==
  \/ ReturnsEarly(fast, d)
  \/ ObjectAt(sc, depth, first, d) = 0
  \/ ~WillUseIndirectLight(sc.kind[ObjectAt(sc, depth, first, d)])

\* The level at which the chain ends.
LastLevel(sc, fast, depth, first) ==
  CHOOSE d \in depth .. kMaximumTraceDepth :
    /\ IsLast(sc, fast, depth, first, d)
    /\ \A e \in depth .. (d - 1) : ~IsLast(sc, fast, depth, first, e)

\* What the last level d of the chain returns.
LastOutput(sc, fast, depth, first, d) ==
  IF d >= kMaximumTraceDepth THEN Black
  ELSE IF fast /\ d > 1 THEN White
  ELSE IF ObjectAt(sc, depth, first, d) = 0 THEN SampleSky
  ELSE Sample(sc.kind[ObjectAt(sc, depth, first, d)],
              ObjectAt(sc, depth, first, d), Black)

\* What level lo returns when level hi + 1 returns deep: each of the
\* levels lo .. hi hands the colour of the level below it to the Sample
\* of its material.  The lower half of the levels is folded first.
RECURSIVE Shade(_, _, _, _, _, _)
Shade(sc, depth, first, lo, hi, deep) ==
  IF lo > hi THEN deep
  ELSE IF lo = hi
    THEN Sample(sc.kind[ObjectAt(sc, depth, first, lo)],
                ObjectAt(sc, depth, first, lo), deep)
  ELSE CHOOSE output \in
         {Shade(sc, depth, first, lo, (lo + hi) \div 2, inner) :
            inner \in {Shade(sc, depth, first, (lo + hi) \div 2 + 1, hi,
                             deep)}} : TRUE

\* A depth-0 miss that leaves result->depth alone.
SkyResultDepthUnset(output) ==
  [color |-> output, normal |-> RayDirection, material_id |-> SkyMaterialId,
   depth |-> EmptyResult.depth]

\* The descriptors a depth-0 TraceStep writes into *result when its ray
\* strikes nothing.
SkyResult(output) ==
  [color |-> output, normal |-> RayDirection, material_id |-> SkyMaterialId,
   depth |-> ZFar]

\* The value holds the colour returned, the last value stored in
\* result->ray_count (0: none), the number of scene.Trace calls made, the
\* descriptors written into *result (Null: none) and the collision handed
\* to CacheCollision (Null: none).
TraceStep(sc, fast, depth, target, cache, fetched, a) ==
  LET use_cached == depth = 0 /\ cache /\ fetched # Null
      collision_info == IF use_cached THEN fetched ELSE Collide(target, a)
      first == IF use_cached THEN fetched.object ELSE target
      last == LastLevel(sc, fast, depth, first)
      stored == {d \in depth .. last : ~ReturnsEarly(fast, d)}
      output == Shade(sc, depth, first, depth, last - 1,
                      LastOutput(sc, fast, depth, first, last))
  IN  [output |-> output,
       ray_count |-> IF stored = {} THEN 0
                     ELSE 1 + CHOOSE d \in stored : \A e \in stored : e <= d,
       traces |-> Cardinality(stored) - (IF use_cached THEN 1 ELSE 0),
       fields |-> IF depth # 0 \/ ReturnsEarly(fast, depth) THEN Null
                  ELSE IF first = 0 THEN SkyResult(output)
                  ELSE [color |-> output,
                        normal |-> collision_info.surface_normal,
                        material_id |-> collision_info.surface_material,
                        depth |-> Distance(collision_info.point, a)],
       store |-> IF depth = 0 /\ cache /\ ~use_cached /\ first # 0
                      /\ ~ReturnsEarly(fast, depth)
                   THEN collision_info ELSE Null]

\* TracePixel: TraceStep at depth 0 on a fresh TraceResult.
TracePixel(sc, fast, p, a, cache, fetched) ==
  LET t == TraceStep(sc, fast, 0, sc.primary[p][a], cache, fetched, a)
  IN  [result |-> [color |-> t.fields.color, normal |-> t.fields.normal,
                   depth |-> t.fields.depth,
                   material_id |-> t.fields.material_id,
                   ray_count |-> t.ray_count],
       output |-> t.output, traces |-> t.traces, store |-> t.store]


(***************************************************************************)
(* Geometry.  The vector, bounds, ray and intersection routines live in    *)
(* the math library the sources include ("math/intersect.h",               *)
(* "math/volume.h", "math/trace.h"); they are modelled from the            *)
(* specification's data model: a ray is a segment from start to stop, a    *)
(* collision holds the parametric value along the ray and the point.       *)
(*                                                                         *)
(* Coordinates are integers.  Every ray has a direction whose components   *)
(* are 0 or +-RayLength, so the parametric value t of a point is k /       *)
(* RayLength for an integer k; the model stores k.  The layouts below keep *)
(* every box centre the build computes on an integer.                      *)
(***************************************************************************)
RayLength == 1024

MaxObjects == 183

MaxFaces == 72

Signs == {-1, 0, 1}

Directions == {s \in Signs \X Signs \X Signs : s # <<0, 0, 0>>}

Axes == 1 .. 3

SetMin(S) == CHOOSE x \in S : \A y \in S : x <= y

SetMax(S) == CHOOSE x \in S : \A y \in S : y <= x

\* The point of the ray at parametric value k / RayLength.
PointAt(start, sign, k) ==
  <<start[1] + sign[1] * k, start[2] + sign[2] * k, start[3] + sign[3] * k>>

\* param of a default-constructed collision record: ObjectCollision and
\* MeshCollision set 2.0, a value no hit on the segment reaches.
DefaultParam == 2 * RayLength

BASE_INFINITY == 2147483647

NoCollision == [hit |-> FALSE, param |-> DefaultParam, point |-> <<0, 0, 0>>]

MakeBounds(lo, hi) == [bounds_min |-> lo, bounds_max |-> hi]

\* bounds::operator+= over a collection of boxes.
ExpandBounds(boxes) ==
  MakeBounds(
    <<SetMin({b.bounds_min[1] : b \in boxes}),
      SetMin({b.bounds_min[2] : b \in boxes}),
      SetMin({b.bounds_min[3] : b \in boxes})>>,
    <<SetMax({b.bounds_max[1] : b \in boxes}),
      SetMax({b.bounds_max[2] : b \in boxes}),
      SetMax({b.bounds_max[3] : b \in boxes})>>)

\* Sums, differences and halves of float32 coordinates, rounded as float32.
\* One unit of a coordinate is one float32 step of the values below 2^24; a
\* result below 2^24 has to be a whole number of units to be exact here.
vector_add(v, w) ==
  <<F32Round(v[1] + w[1], 1), F32Round(v[2] + w[2], 1), F32Round(v[3] + w[3], 1)>>

vector_sub(v, w) ==
  <<F32Round(v[1] - w[1], 1), F32Round(v[2] - w[2], 1), F32Round(v[3] - w[3], 1)>>

query_center(b) ==
  <<F32Round(b.bounds_min[1] + b.bounds_max[1], 2),
    F32Round(b.bounds_min[2] + b.bounds_max[2], 2),
    F32Round(b.bounds_min[3] + b.bounds_max[3], 2)>>

\* bounds::query_volume is 0: the box has no extent on some axis.
ZeroVolume(b) == \E a \in Axes : b.bounds_max[a] = b.bounds_min[a]

point_in_bounds(b, p) ==
  \A a \in Axes : b.bounds_min[a] <= p[a] /\ p[a] <= b.bounds_max[a]

bounds_intersect_bounds(a, b) ==
  \A i \in Axes :
    a.bounds_min[i] <= b.bounds_max[i] /\ b.bounds_min[i] <= a.bounds_max[i]

\* Slab test of the segment against a box: the entry value when the
\* segment meets the box, 0 when it starts inside.
SlabEnter(b, start, sign, a) ==
  IF sign[a] = 0 THEN 0
  ELSE IF sign[a] = 1 THEN b.bounds_min[a] - start[a]
  ELSE start[a] - b.bounds_max[a]

SlabExit(b, start, sign, a) ==
  IF sign[a] = 0 THEN RayLength
  ELSE IF sign[a] = 1 THEN b.bounds_max[a] - start[a]
  ELSE start[a] - b.bounds_min[a]

ray_intersect_bounds(b, r) ==
  LET enter == SetMax({0} \cup {SlabEnter(b, r.start, r.sign, a) : a \in Axes})
      exit == SetMin({RayLength} \cup {SlabExit(b, r.start, r.sign, a) : a \in Axes})
      within == \A a \in Axes :
                  \/ r.sign[a] # 0
                  \/ b.bounds_min[a] <= r.start[a] /\ r.start[a] <= b.bounds_max[a]
  IN  IF within /\ enter <= exit
        THEN [hit |-> TRUE, param |-> enter, point |-> PointAt(r.start, r.sign, enter)]
        ELSE NoCollision

\* The split plane of a node is axis-aligned through the node's centre.
ray_intersect_plane(center, a, start, sign) ==
  IF sign[a] = 0 THEN NoCollision
  ELSE IF 0 <= (center[a] - start[a]) * sign[a] /\ (center[a] - start[a]) * sign[a] <= RayLength
    THEN [hit |-> TRUE,
          param |-> (center[a] - start[a]) * sign[a],
          point |-> PointAt(start, sign, (center[a] - start[a]) * sign[a])]
  ELSE NoCollision

\* A face is the right triangle v0, v0 + (w, 0, 0), v0 + (0, w, 0).
FaceBounds(face) ==
  MakeBounds(face.v0, <<face.v0[1] + face.w, face.v0[2] + face.w, face.v0[3]>>)

triangle_intersect_bounds(face, b) ==
  /\ b.bounds_min[3] <= face.v0[3] /\ face.v0[3] <= b.bounds_max[3]
  /\ b.bounds_max[1] >= face.v0[1]
  /\ b.bounds_max[2] >= face.v0[2]
  /\ (SetMax({b.bounds_min[1], face.v0[1]}) - face.v0[1])
       + (SetMax({b.bounds_min[2], face.v0[2]}) - face.v0[2]) <= face.w

ray_intersect_triangle(face, r) ==
  IF r.sign[3] = 0 THEN NoCollision
  ELSE \* the point where the ray crosses the face's plane
    LET k == (face.v0[3] - r.start[3]) * r.sign[3]
        x == r.start[1] + r.sign[1] * k - face.v0[1]
        y == r.start[2] + r.sign[2] * k - face.v0[2]
    IN  IF 0 <= k /\ k <= RayLength /\ x >= 0 /\ y >= 0 /\ x + y <= face.w
          THEN [hit |-> TRUE, param |-> k, point |-> PointAt(r.start, r.sign, k)]
          ELSE NoCollision

(***************************************************************************)
(* Objects and faces.  A layout is the sequence of objects a caller adds   *)
(* to a scene; the n-th Add*Object call of a layout adds its n-th object.  *)
(*   "grid":    cuboids of side 32 on a lattice of pitch 64, eight by      *)
(*              eight in x and y, layer after layer in z;                  *)
(*   "cluster": one cuboid in the far corner and cuboids of side 8 on a    *)
(*              lattice of pitch 16 inside the first octant.               *)
(***************************************************************************)
Layouts == {"grid", "cluster"}

Cuboid(lo, side) ==
  [cube_data_ |-> MakeBounds(lo, <<lo[1] + side, lo[2] + side, lo[3] + side>>)]

LatticeCell(i) == <<i % 8, (i \div 8) % 8, i \div 64>>

LayoutObject(layout, n) ==
  IF layout = "grid"
    THEN Cuboid(<<64 * LatticeCell(n - 1)[1], 64 * LatticeCell(n - 1)[2],
                  64 * LatticeCell(n - 1)[3]>>, 32)
  ELSE IF n = 1 THEN Cuboid(<<448, 448, 128>>, 32)
  ELSE Cuboid(<<16 * LatticeCell(n - 2)[1], 16 * LatticeCell(n - 2)[2],
                16 * LatticeCell(n - 2)[3]>>, 8)

LayoutObjects(layout, n) == [i \in 1 .. n |-> LayoutObject(layout, i)]

GetBounds(obj) == obj.cube_data_

\* The faces of a mesh: triangles of leg 32 on a lattice of pitch 64, six
\* by six in x and y, in planes z = 16, 80, ...
MeshFace(n) ==
  [v0 |-> <<64 * ((n - 1) % 6) + 16, 64 * (((n - 1) \div 6) % 6) + 16,
            64 * ((n - 1) \div 36) + 16>>,
   w |-> 32]

MeshFaces(n) == [i \in 1 .. n |-> MeshFace(i)]

\* A slab: the faces alternate between the planes z = 1.0 and z = 3.0 + one
\* float32 step (2^23 and 3 * 2^23 + 2 units), on the same lattice.
SlabLow == 2^23

SlabHigh == 3 * 2^23 + 2

SlabFace(n) ==
  [v0 |-> <<64 * (((n - 1) \div 2) % 6) + 16, 64 * (((n - 1) \div 12) % 6) + 16,
            IF n % 2 = 1 THEN SlabLow ELSE SlabHigh>>,
   w |-> 32]

MeshFiles == {"lattice", "slab"}

\* The first n faces of a mesh file.
FileFaces(file, n) ==
  IF file = "lattice" THEN MeshFaces(n) ELSE [i \in 1 .. n |-> SlabFace(i)]

\* ObjectCollision(): param 2.0, no object struck.
NewCollision == [param |-> DefaultParam, point |-> <<0, 0, 0>>, index |-> 0]

\* Object::Trace of an unrotated cuboid: a hit closer than the one already
\* held in hit_info replaces it.
ObjectTrace(obj, id, r, hit_info) ==
  LET c == ray_intersect_bounds(obj.cube_data_, r)
  IN  IF c.hit /\ c.param < hit_info.param
        THEN [result |-> TRUE,
              hit_info |-> [param |-> c.param, point |-> c.point, index |-> id]]
        ELSE [result |-> FALSE, hit_info |-> hit_info]

(***************************************************************************)
(* BaseBvhNode (bvh.h).  A node is a record: aabb_, depth_, is_leaf_node_, *)
(* indices_ (object_indices_ or face_indices_), children_ (the empty       *)
(* tuple, or eight nodes in the order of the child index) and, for a       *)
(* scene node, max_tree_depth_.                                            *)
(***************************************************************************)
kMaxSubdivisionDepth == 2

kMaxObjectCountPerNode == 2

kMaxFaceCountPerNode == 16

kMeshMaxSubdivisionDepth == 4

ChildIndices == 0 .. 7

\* The boxes ConfigureChildren gives the eight children, by child index.
ChildBounds(aabb, i) ==
  LET min == aabb.bounds_min
      center == query_center(aabb)
      node_span == vector_sub(center, min)
      node_min == vector_add(min, <<node_span[1] * (i % 2),
                                    node_span[2] * (i \div 4),
                                    node_span[3] * ((i % 4) \div 2)>>)
  IN  MakeBounds(node_min, vector_add(node_min, node_span))

ClosestChild(aabb, point) ==
  LET center == query_center(aabb)
      x_test == IF point[1] - center[1] >= 0 THEN 1 ELSE 0
      y_test == IF point[2] - center[2] >= 0 THEN 1 ELSE 0
      z_test == IF point[3] - center[3] >= 0 THEN 1 ELSE 0
  IN  x_test + 2 * z_test + 4 * y_test

\* closest_node ^= bit, for bit 1, 2 or 4.
FlipBit(n, bit) == IF (n \div bit) % 2 = 1 THEN n - bit ELSE n + bit

\* The bit of the child index the split plane of an axis separates.
AxisBit(a) == IF a = 1 THEN 1 ELSE IF a = 2 THEN 4 ELSE 2

\* A chain that compares with <=: on a tie the first axis is taken.
NextPlaneTiesTaken(plane_hit, param) ==
  IF plane_hit[1] /\ param[1] <= param[2] /\ param[1] <= param[3] THEN 1
  ELSE IF plane_hit[2] /\ param[2] <= param[3] /\ param[2] <= param[1] THEN 2
  ELSE IF plane_hit[3] /\ param[3] <= param[2] /\ param[3] <= param[1] THEN 3
  ELSE 0

\* The comparison chain of TraceInternal: the axis whose plane is crossed
\* next, 0 when no branch of the chain is taken.
NextPlane(plane_hit, param) ==
  IF plane_hit[1] /\ param[1] < param[2] /\ param[1] < param[3] THEN 1
  ELSE IF plane_hit[2] /\ param[2] < param[3] /\ param[2] < param[1] THEN 2
  ELSE IF plane_hit[3] /\ param[3] < param[2] /\ param[3] < param[1] THEN 3
  ELSE 0

\* The body of a taken branch: step to the neighbour across the plane.
CrossPlane(st, planes, a) ==
  [st EXCEPT !.closest_node = FlipBit(st.closest_node, AxisBit(a)),
             !.plane_hit[a] = FALSE,
             !.start = planes[a].point,
             !.param[a] = BASE_INFINITY]

\* The loop over the payload of a scene leaf.  temp_obj_hit is declared
\* before the loop and handed to every object.
SceneLeafStep(obj, id, r, st) ==
  LET t == ObjectTrace(obj, id, r, st.temp)
  IN  IF ~t.result THEN st
      ELSE IF t.hit_info.param < st.hit_info.param
        THEN [temp |-> t.hit_info, hit_info |-> t.hit_info, result |-> TRUE]
      ELSE [st EXCEPT !.temp = t.hit_info]

\* A leaf loop that takes every hit on a face, closer or not.
MeshLeafStepAnyHit(face, id, r, st) ==
  LET temp_hit == ray_intersect_triangle(face, r)
  IN  IF temp_hit.hit
        THEN [st EXCEPT !.hit_info = [param |-> temp_hit.param,
                                      point |-> temp_hit.point,
                                      index |-> id],
                        !.result = TRUE]
        ELSE st

\* The loop over the payload of a mesh leaf.
MeshLeafStep(face, id, r, st) ==
  LET temp_hit == ray_intersect_triangle(face, r)
  IN  IF temp_hit.hit /\ temp_hit.param < st.hit_info.param
        THEN [st EXCEPT !.hit_info = [param |-> temp_hit.param,
                                      point |-> temp_hit.point,
                                      index |-> id],
                        !.result = TRUE]
        ELSE st

\* Payload entries lo .. hi of a leaf, in order.
RECURSIVE LeafSweep(_, _, _, _, _, _, _)
LeafSweep(kind, indices, items, r, lo, hi, st) ==
  IF lo > hi THEN st
  ELSE IF lo = hi
    THEN IF kind = "scene"
           THEN SceneLeafStep(items[indices[lo]], indices[lo], r, st)
           ELSE MeshLeafStep(items[indices[lo]], indices[lo], r, st)
  ELSE CHOOSE out \in
         {LeafSweep(kind, indices, items, r, (lo + hi) \div 2 + 1, hi, left) :
            left \in {LeafSweep(kind, indices, items, r, lo, (lo + hi) \div 2, st)}} : TRUE

RECURSIVE NodeTrace(_, _, _, _, _)

\* The loop of TraceInternal, from iteration i on.  log is history: for
\* each iteration the child traced, the planes still to fire and their
\* params when the chain is reached, and the axis of the branch taken (0
\* when none, -1 when the loop ends on a hit before the chain) and the
\* best param held once the child has been traced.
RECURSIVE ChildLoop(_, _, _, _, _, _, _)
ChildLoop(kind, node, items, r, planes, st, i) ==
  IF i >= 4 THEN st
  ELSE
    LET child == node.children_[st.closest_node + 1]
        traced == NodeTrace(kind, child, items, r, st.hit_info)
        found == traced.result /\ point_in_bounds(child.aabb_, traced.hit_info.point)
        a == NextPlane(st.plane_hit, st.param)
        after == [st EXCEPT !.hit_info = traced.hit_info,
                            !.trace_result = st.trace_result \/ traced.result,
                            !.log = Append(@, [child |-> st.closest_node,
                                               plane_hit |-> st.plane_hit,
                                               param |-> st.param,
                                               taken |-> IF found THEN -1 ELSE a,
                                               best |-> traced.hit_info.param])]
    IN  IF found THEN after
        ELSE IF a = 0 THEN after
        ELSE IF ~point_in_bounds(node.aabb_, planes[a].point)
          THEN CrossPlane(after, planes, a)
        ELSE ChildLoop(kind, node, items, r, planes, CrossPlane(after, planes, a), i + 1)

\* TraceInternal from its entry to the end of the loop.
InternalLoop(kind, node, items, node_hit, r, hit_info) ==
  LET inside == point_in_bounds(node.aabb_, r.start)
      start == IF inside THEN r.start ELSE node_hit.point
      center == query_center(node.aabb_)
      planes == <<ray_intersect_plane(center, 1, start, r.sign),
                  ray_intersect_plane(center, 2, start, r.sign),
                  ray_intersect_plane(center, 3, start, r.sign)>>
  IN  ChildLoop(kind, node, items, r, planes,
                [closest_node |-> ClosestChild(node.aabb_, start),
                 plane_hit |-> <<planes[1].hit, planes[2].hit, planes[3].hit>>,
                 param |-> <<planes[1].param, planes[2].param, planes[3].param>>,
                 start |-> start,
                 hit_info |-> hit_info,
                 trace_result |-> FALSE,
                 log |-> <<>>], 0)

TraceInternal(kind, node, items, node_hit, r, hit_info) ==
  LET inside == point_in_bounds(node.aabb_, r.start)
      start == IF inside THEN r.start ELSE node_hit.point
      center == query_center(node.aabb_)
      planes == <<ray_intersect_plane(center, 1, start, r.sign),
                  ray_intersect_plane(center, 2, start, r.sign),
                  ray_intersect_plane(center, 3, start, r.sign)>>
      closest_node == ClosestChild(node.aabb_, start)
      out == InternalLoop(kind, node, items, node_hit, r, hit_info)
  IN  IF inside /\ ~planes[1].hit /\ ~planes[2].hit /\ ~planes[3].hit
        THEN NodeTrace(kind, node.children_[closest_node + 1], items, r, hit_info)
        ELSE [result |-> out.trace_result, hit_info |-> out.hit_info]

\* SceneBvhNode::Trace and MeshBvhNode::Trace.
NodeTrace(kind, node, items, r, hit_info) ==
  LET node_hit == ray_intersect_bounds(node.aabb_, r)
      leaf == LeafSweep(kind, node.indices_, items, r, 1, Len(node.indices_),
                        [temp |-> NewCollision, hit_info |-> hit_info, result |-> FALSE])
  IN  IF ~node_hit.hit \/ node_hit.param > hit_info.param
        THEN [result |-> FALSE, hit_info |-> hit_info]
      ELSE IF node.is_leaf_node_
        THEN [result |-> leaf.result, hit_info |-> leaf.hit_info]
      ELSE TraceInternal(kind, node, items, node_hit, r, hit_info)

(***************************************************************************)
(* Scene BVH build (scene.cpp).  The constructor of a child node does not  *)
(* set max_tree_depth_: the child reads whatever the allocation holds.     *)
(* junk[i] is that value for the child of index i.                         *)
(***************************************************************************)
JunkDepths == {[i \in ChildIndices |-> d] : d \in {0, 2147483647}}

\* depth_ >= min(max_tree_depth_ - depth_, log8(size) + 0.5 - 2), compared
\* as doubles: log8(size) - 1.5 <= depth_ iff size^2 <= 8^(2 depth_ + 3).
\* No node of the model is deeper than 3.
\* The pruning test with the logarithm term rounded down to an integer:
\* floor(log8(size) + 0.5) - 2 <= depth_ iff size^2 < 8^(2 depth_ + 5).
PruneSparseFloor(depth, max_tree_depth, size) ==
  \/ depth >= max_tree_depth - depth
  \/ size * size < 8^(2 * depth + 5)

PruneSparse(depth, max_tree_depth, size) ==
  \/ depth >= max_tree_depth - depth
  \/ size * size <= 8^(2 * depth + 3)

ChildPayload(kind, indices, items, box) ==
  IF kind = "scene"
    THEN SelectSeq(indices, LAMBDA j : bounds_intersect_bounds(GetBounds(items[j]), box))
    ELSE SelectSeq(indices, LAMBDA j : triangle_intersect_bounds(items[j], box))

RECURSIVE SceneSubdivide(_, _, _)
SceneSubdivide(node, objects, junk) ==
  IF node.depth_ >= node.max_tree_depth_ THEN node
  ELSE IF PruneSparse(node.depth_, node.max_tree_depth_, Len(node.indices_)) THEN node
  ELSE IF Len(node.indices_) > kMaxObjectCountPerNode
    THEN [node EXCEPT
            !.is_leaf_node_ = FALSE,
            !.indices_ = <<>>,
            !.children_ =
               [c \in 1 .. 8 |->
                  SceneSubdivide(
                    [aabb_ |-> ChildBounds(node.aabb_, c - 1),
                     depth_ |-> node.depth_ + 1,
                     is_leaf_node_ |-> TRUE,
                     indices_ |-> ChildPayload("scene", node.indices_, objects,
                                               ChildBounds(node.aabb_, c - 1)),
                     children_ |-> <<>>,
                     max_tree_depth_ |-> junk[c - 1]],
                    objects, junk)]]
  ELSE node

\* SceneBvh::BuildBvh.  The root is constructed with the default
\* max_tree_depth; the argument is stored in the SceneBvh only.
BuildBvh(tree, data_source, max_tree_depth, junk) ==
  IF Len(data_source) = 0 THEN tree
  ELSE SceneSubdivide(
         [aabb_ |-> ExpandBounds({GetBounds(data_source[i]) : i \in 1 .. Len(data_source)}),
          depth_ |-> 0,
          is_leaf_node_ |-> TRUE,
          indices_ |-> [i \in 1 .. Len(data_source) |-> i],
          children_ |-> <<>>,
          max_tree_depth_ |-> kMaxSubdivisionDepth],
         data_source, junk)

\* SceneBvh::Trace.
SceneBvhTrace(tree, objects, r, hit_info) ==
  IF tree = Null THEN [result |-> FALSE, hit_info |-> hit_info]
  ELSE NodeTrace("scene", tree, objects, r, hit_info)

(***************************************************************************)
(* Mesh BVH build (mesh.cpp).                                              *)
(***************************************************************************)
RECURSIVE MeshSubdivide(_, _)

\* A Subdivide without face_indices_.clear().
MeshSubdivideKeepingFaces(node, faces) ==
  IF node.depth_ >= kMeshMaxSubdivisionDepth THEN node
  ELSE IF Len(node.indices_) > kMaxFaceCountPerNode
    THEN [node EXCEPT
            !.is_leaf_node_ = FALSE,
            !.children_ =
               [c \in 1 .. 8 |->
                  MeshSubdivide(
                    [aabb_ |-> ChildBounds(node.aabb_, c - 1),
                     depth_ |-> node.depth_ + 1,
                     is_leaf_node_ |-> TRUE,
                     indices_ |-> ChildPayload("mesh", node.indices_, faces,
                                               ChildBounds(node.aabb_, c - 1)),
                     children_ |-> <<>>],
                    faces)]]
  ELSE node

\* MeshBvhNode::Subdivide.
MeshSubdivide(node, faces) ==
  IF node.depth_ >= kMeshMaxSubdivisionDepth THEN node
  ELSE IF Len(node.indices_) > kMaxFaceCountPerNode
    THEN [node EXCEPT
            !.is_leaf_node_ = FALSE,
            !.indices_ = <<>>,
            !.children_ =
               [c \in 1 .. 8 |->
                  MeshSubdivide(
                    [aabb_ |-> ChildBounds(node.aabb_, c - 1),
                     depth_ |-> node.depth_ + 1,
                     is_leaf_node_ |-> TRUE,
                     indices_ |-> ChildPayload("mesh", node.indices_, faces,
                                               ChildBounds(node.aabb_, c - 1)),
                     children_ |-> <<>>],
                    faces)]]
  ELSE node

\* A BuildBvh that looks at the face list alone.
MeshBuildBvhAnyVertices(tree, vertices, faces) ==
  IF Len(faces) = 0 THEN tree
  ELSE MeshSubdivide(
         [aabb_ |-> ExpandBounds({FaceBounds(faces[i]) : i \in 1 .. Len(faces)}),
          depth_ |-> 0,
          is_leaf_node_ |-> TRUE,
          indices_ |-> [i \in 1 .. Len(faces) |-> i],
          children_ |-> <<>>],
         faces)

\* MeshBvh::BuildBvh; vertices is the size of the vertex list.
MeshBuildBvh(tree, vertices, faces) ==
  IF vertices = 0 \/ Len(faces) = 0 THEN tree
  ELSE MeshSubdivide(
         [aabb_ |-> ExpandBounds({FaceBounds(faces[i]) : i \in 1 .. Len(faces)}),
          depth_ |-> 0,
          is_leaf_node_ |-> TRUE,
          indices_ |-> [i \in 1 .. Len(faces) |-> i],
          children_ |-> <<>>],
         faces)

\* MeshBvh::Trace.
MeshBvhTrace(tree, faces, r, hit_info) ==
  IF tree = Null THEN [result |-> FALSE, hit_info |-> hit_info]
  ELSE NodeTrace("mesh", tree, faces, r, hit_info)

(***************************************************************************)
(* Scene (scene.cpp).                                                      *)
(***************************************************************************)

\* The objects of 1 .. hi, in the order of object_list_.
RECURSIVE LinearSweep(_, _, _, _, _)
LinearSweep(objects, r, lo, hi, st) ==
  IF lo > hi THEN st
  ELSE IF lo = hi
    THEN LET t == ObjectTrace(objects[lo], lo, r, st.hit_info)
         IN  [result |-> st.result \/ t.result, hit_info |-> t.hit_info]
  ELSE CHOOSE out \in
         {LinearSweep(objects, r, (lo + hi) \div 2 + 1, hi, left) :
            left \in {LinearSweep(objects, r, lo, (lo + hi) \div 2, st)}} : TRUE

\* Scene::Trace up to the dispatch's result.
SceneTraceResult(valid, tree, objects, r, hit_info) ==
  IF ~valid
    THEN LinearSweep(objects, r, 1, Len(objects),
                     [result |-> FALSE, hit_info |-> hit_info])
    ELSE SceneBvhTrace(tree, objects, r, hit_info)

\* The value of a double outside the range of int32 converted to int32 is
\* undefined; builds yield the smallest int32, 0 or the largest int32.
UndefinedInt32 == {-2147483647 - 1, 0, 2147483647}

\* int32 ideal_depth = (log(size) / log(8) + 0.5) - 2, truncated towards
\* zero: log8(n) - 1.5 lies in (-2, -1] iff n^2 <= 8, in (-1, 1) iff
\* 8 < n^2 < 8^5, in [1, 2) iff 8^5 <= n^2 < 8^7.
IdealDepths(n) ==
  IF n = 0 THEN UndefinedInt32
  ELSE IF n * n <= 8 THEN {-1}
  ELSE IF n * n < 8^5 THEN {0}
  ELSE IF n * n < 8^7 THEN {1}
  ELSE {2}

MakeRay(start, sign) == [start |-> start, sign |-> sign]

InitScene ==
  /\ object_list_ = <<>>
  /\ is_tree_valid_ = FALSE
  /\ object_tree_ = Null
  /\ tree_objects_ = <<>>
  /\ last_call = "none"
  /\ ideal_depth = 0
  /\ trajectory = MakeRay(<<0, 0, 0>>, <<0, 0, 1>>)
  /\ last_trace = Null

\* is_tree_valid_ = false, as kept by a variant of Add*Object without it.
TreeKept(valid) == valid

\* is_tree_valid_ = false in every Add*Object.
TreeInvalidated(valid) == FALSE

\* Scene::AddCuboidObject, standing for the seven Add*Object functions:
\* each clears is_tree_valid_ and appends the object.
AddObject ==
  /\ Len(object_list_) < MaxObjects
  /\ \E layout \in Layouts :
       /\ IF object_list_ = <<>> THEN TRUE
          ELSE object_list_[1] = LayoutObject(layout, 1)
       /\ object_list_' = Append(object_list_, LayoutObject(layout, Len(object_list_) + 1))
  /\ is_tree_valid_' = TreeInvalidated(is_tree_valid_)
  /\ last_call' = "Add"
  /\ ideal_depth' = 0
  /\ last_trace' = Null
  /\ UNCHANGED <<object_tree_, tree_objects_, trajectory, exceptScene>>

\* Scene::Optimize.
Optimize ==
  /\ \E depth \in IdealDepths(Len(object_list_)) :
       /\ ideal_depth' = depth
       /\ is_tree_valid_' = (depth > 0)
       /\ IF depth > 0
            THEN /\ \E junk \in JunkDepths :
                      object_tree_' = BuildBvh(object_tree_, object_list_, depth, junk)
                 /\ tree_objects_' = IF Len(object_list_) = 0 THEN tree_objects_
                                     ELSE object_list_
            ELSE UNCHANGED <<object_tree_, tree_objects_>>
  /\ last_call' = "Optimize"
  /\ last_trace' = Null
  /\ UNCHANGED <<object_list_, trajectory, exceptScene>>

\* Scene::Trace of ray r on a fresh ObjectCollision.  linear is what the
\* sweep over object_list_ finds for the same ray.
SceneTrace(r) ==
  /\ trajectory' = r
  /\ \E t \in {SceneTraceResult(is_tree_valid_, object_tree_, object_list_,
                                r, NewCollision)} :
       \E linear \in {LinearSweep(object_list_, r, 1, Len(object_list_),
                                  [result |-> FALSE, hit_info |-> NewCollision])} :
         last_trace' = [used_tree |-> is_tree_valid_,
                        result |-> t.result,
                        hit_info |-> t.hit_info,
                        linear |-> linear]
  /\ UNCHANGED <<object_list_, is_tree_valid_, object_tree_, tree_objects_,
                 last_call, ideal_depth, exceptScene>>

\* Ray starts lie outside every cuboid of both layouts: x is in a gap of
\* the lattices or outside the scene.
SceneRays ==
  {MakeRay(<<x, y, z>>, sign) :
     x \in {-16, 44, 232, 240}, y \in {16, 232, 240, 272}, z \in {16, 80},
     sign \in Directions}

FewRays ==
  {MakeRay(<<-16, 16, 16>>, <<1, 0, 0>>),
   MakeRay(<<232, 232, 16>>, <<1, 1, 0>>),
   MakeRay(<<44, 44, 80>>, <<0, 0, 1>>)}

(***************************************************************************)
(* MeshObject (mesh.cpp).                                                  *)
(***************************************************************************)
InitMesh ==
  /\ mesh_loaded = FALSE
  /\ face_list = <<>>
  /\ vertices_ = 0
  /\ shape_tree = Null
  /\ incoming = DefaultParam
  /\ last_mesh_trace = Null

MeshRays ==
  {MakeRay(<<x, y, z>>, sign) :
     x \in {8, 184}, y \in {24, 88}, z \in {0, 40}, sign \in Directions}

MeshSizes == {0, kMaxFaceCountPerNode, kMaxFaceCountPerNode + 1, MaxFaces}

\* The vertices of a file of n faces that the constructor keeps: they are
\* copied only when a transform is needed.
LoadedVertices(n, transform_needed) == IF transform_needed THEN n + n + n ELSE 0

\* MeshObject's constructor for the first n faces of a file: the vertices
\* and faces are read and shape_tree.BuildBvh indexes them.
LoadMesh(file, n, transform_needed) ==
  /\ ~mesh_loaded
  /\ mesh_loaded' = TRUE
  /\ face_list' = FileFaces(file, n)
  /\ vertices_' = LoadedVertices(n, transform_needed)
  /\ shape_tree' = MeshBuildBvh(shape_tree, LoadedVertices(n, transform_needed),
                                FileFaces(file, n))
  /\ UNCHANGED <<incoming, last_mesh_trace, exceptMesh>>

\* MeshBvh::Trace of ray r on a MeshCollision whose param is best.
MeshTrace(r, best) ==
  /\ mesh_loaded
  /\ incoming' = best
  /\ trajectory' = r
  /\ \E t \in {MeshBvhTrace(shape_tree, face_list, r,
                            [param |-> best, point |-> <<0, 0, 0>>, index |-> 0])} :
       last_mesh_trace' = [result |-> t.result, hit_info |-> t.hit_info]
  /\ UNCHANGED <<mesh_loaded, face_list, vertices_, shape_tree, object_list_,
                 is_tree_valid_, object_tree_, tree_objects_, last_call,
                 ideal_depth, last_trace, renderVars, worldVars, cacheVars,
                 frameVars, pathVars, loadVars,
                 textureVars>>

-----------------------------------------------------------------------------
(***************************************************************************)
(* One TracePixel call followed call by call.  No cache is supplied.  The  *)
(* TraceStep calls that have not returned form a chain of depths 0, 1,     *)
(* ..., path_depth; path_hits holds the object each of them struck.        *)
(***************************************************************************)

\* No TracePixel call has been made.
InitPath ==
  /\ path_phase = "idle"
  /\ path_depth = 0
  /\ path_pixel = <<<<0, 0>>, 1>>
  /\ path_hits = <<>>
  /\ path_returned = Black
  /\ path_traces = 0
  /\ path_result = EmptyResult

\* TracePixel: TraceStep is called at depth 0 on the caller's TraceResult.
PathBegin(p, a) ==
  /\ path_phase \in {"idle", "done"}
  /\ path_phase' = "call"
  /\ path_depth' = 0
  /\ path_pixel' = <<p, a>>
  /\ path_hits' = <<>>
  /\ path_returned' = Black
  /\ path_traces' = 0
  /\ path_result' = EmptyResult
  /\ UNCHANGED exceptPath

\* The call of depth path_depth returns output to its caller: TracePixel
\* when the depth is 0, else the TraceStep of the depth above, which goes
\* on to sample its material.
PathReturn(output) ==
  /\ path_returned' = output
  /\ IF path_depth = 0
       THEN /\ path_phase' = "done"
            /\ UNCHANGED path_depth
       ELSE /\ path_phase' = "shade"
            /\ path_depth' = path_depth - 1

\* The object the ray of the call of depth path_depth strikes (0: none).
PathTarget ==
  IF path_depth = 0 THEN scene.primary[path_pixel[1]][path_pixel[2]]
  ELSE scene.after[path_hits[1]][path_depth]

\* TraceStep from its entry to its recursive call or to its first return.
PathEnter ==
  /\ path_phase = "call"
  /\ path_depth <= kMaximumTraceDepth
  /\ IF ReturnsEarly(fast_render_enabled, path_depth)
       THEN /\ PathReturn(IF path_depth >= kMaximumTraceDepth THEN Black
                          ELSE White)
            /\ UNCHANGED <<path_hits, path_traces, path_result>>
       ELSE /\ path_traces' = path_traces + 1
            /\ IF PathTarget = 0
                 THEN /\ PathReturn(SampleSky)
                      /\ path_result' =
                           IF path_depth = 0
                             THEN [ray_count |-> path_depth + 1]
                                    @@ SkyResult(SampleSky)
                             ELSE [path_result EXCEPT
                                     !.ray_count = path_depth + 1]
                      /\ UNCHANGED path_hits
                 ELSE /\ path_hits' = Append(path_hits, PathTarget)
                      /\ path_result' =
                           [path_result EXCEPT !.ray_count = path_depth + 1]
                      /\ IF WillUseIndirectLight(scene.kind[PathTarget])
                           THEN /\ path_phase' = "call"
                                /\ path_depth' = path_depth + 1
                                /\ UNCHANGED path_returned
                           ELSE /\ path_phase' = "shade"
                                /\ path_returned' = Black
                                /\ UNCHANGED path_depth
  /\ UNCHANGED path_pixel
  /\ UNCHANGED exceptPath

\* The end of a TraceStep whose ray struck something, with the store made
\* at every depth.
StoreHitAnyDepth(result, depth, output, hit, a) ==
  [color |-> output,
   normal |-> hit.surface_normal,
   material_id |-> hit.surface_material,
   depth |-> Distance(hit.point, a),
   ray_count |-> result.ray_count]

\* The end of a TraceStep whose ray struck something: at depth 0 the
\* output and the descriptors of the hit are stored in *result.
StoreHit(result, depth, output, hit, a) ==
  IF depth = 0 THEN StoreHitAnyDepth(result, depth, output, hit, a)
  ELSE result

\* TraceStep from the return of its recursive call (or from the test that
\* skipped it) to its own return: the material is sampled and, at depth 0,
\* the descriptors of the hit are written to the TraceResult.
PathShade ==
  /\ path_phase = "shade"
  /\ LET o == path_hits[path_depth + 1]
         hit == Collide(o, path_pixel[2])
         output == Sample(scene.kind[o], o, path_returned)
     IN  /\ PathReturn(output)
         /\ path_result' =
              StoreHit(path_result, path_depth, output, hit, path_pixel[2])
  /\ path_hits' = SubSeq(path_hits, 1, path_depth)
  /\ UNCHANGED <<path_pixel, path_traces>>
  /\ UNCHANGED exceptPath

NextPath ==
  \/ \E p \in FramePixels : \E a \in Jitters : PathBegin(p, a)
  \/ PathEnter
  \/ PathShade

-----------------------------------------------------------------------------
(***************************************************************************)
(* Scene::LoadScene and the materials of objects.  A material is held by   *)
(* the name of the class of the object built ("Light", "Diffuse", ...); a  *)
(* null shared_ptr is NullMaterial.  The float values of a material block  *)
(* are held in halves: 2 is 1.0.                                           *)
(***************************************************************************)

NullMaterial == "nullptr"

Variants ==
  {"Light", "Ceramic", "Mirror", "Metal", "Liquid", "Glass", "Diffuse"}

\* The limit on the objects of a loaded scene followed by the model.
MaxLoaded == 2

\* Names a scene file gives its materials; NoName is a block without a
\* material line.
MaterialNames == {"a", "b"}
NoName == ""

\* Values of the keyed lines of a material block: emission, roughness,
\* metallic and brdf (the lines that are absent keep their defaults 0).
Emissions == {<<0, 0, 0>>, <<2, 0, 0>>, <<0, 0, 1>>, <<-2, 0, 0>>, <<0, -1, 0>>}
Roughnesses == {-1, 0, 1}
Metallics == {-2, 0, 1, 2}
Brdfs == {0, 1, 2, 3}

MaterialBlocks ==
  [emission : Emissions, roughness : Roughnesses, metallic : Metallics,
   brdf : Brdfs]

\* A ParseMaterial that tests metallic before roughness.
SelectMaterialMetallicFirst(b) ==
  IF b.emission[1] # 0 \/ b.emission[2] # 0 \/ b.emission[3] # 0 THEN "Light"
  ELSE IF b.metallic # 0
    THEN (IF b.metallic = 2 THEN "Mirror" ELSE "Metal")
  ELSE IF b.roughness # 0 THEN "Ceramic"
  ELSE IF b.brdf = 1 THEN "Liquid"
  ELSE IF b.brdf = 2 THEN "Glass"
  ELSE "Diffuse"

\* Scene::ParseMaterial, the choice of the variant at the end of the block.
SelectMaterial(b) ==
  IF b.emission[1] # 0 \/ b.emission[2] # 0 \/ b.emission[3] # 0 THEN "Light"
  ELSE IF b.roughness # 0 THEN "Ceramic"
  ELSE IF b.metallic # 0
    THEN (IF b.metallic = 2 THEN "Mirror" ELSE "Metal")
  ELSE IF b.brdf = 1 THEN "Liquid"
  ELSE IF b.brdf = 2 THEN "Glass"
  ELSE "Diffuse"

\* Scene::Scene: no object, a black light as sky; LoadScene starts with an
\* empty material_list.
InitLoad ==
  /\ material_list = [n \in {} |-> "Diffuse"]
  /\ object_materials = <<>>
  /\ sky_material_ = "Light"
  /\ last_material = Null

\* Scene::ParseMaterial: (*material_list)[material_name] = material.
ParseMaterial(material_name, b) ==
  /\ material_list' =
       [n \in DOMAIN material_list \cup {material_name} |->
          IF n = material_name THEN SelectMaterial(b) ELSE material_list[n]]
  /\ last_material' = [name |-> material_name, block |-> b,
                       variant |-> SelectMaterial(b)]
  /\ UNCHANGED <<object_materials, sky_material_>>
  /\ UNCHANGED exceptLoad

\* Object::Object: material_ is a default-constructed shared_ptr.
NewObjectMaterial == NullMaterial

\* object_material.length() && material_list->count(object_material)
IsListed(object_material) ==
  object_material # NoName /\ object_material \in DOMAIN material_list

\* Scene::AddSphericalObject and the other Add*Object calls: the object is
\* constructed and appended; no material is set.
AddSphericalObject ==
  /\ Len(object_materials) < MaxLoaded
  /\ object_materials' = Append(object_materials, NewObjectMaterial)
  /\ UNCHANGED <<material_list, sky_material_, last_material>>
  /\ UNCHANGED exceptLoad

\* Object::SetMaterial called on object i by the owner of the scene.
SetMaterial(i, material) ==
  /\ i \in 1 .. Len(object_materials)
  /\ object_materials' = [object_materials EXCEPT ![i] = material]
  /\ UNCHANGED <<material_list, sky_material_, last_material>>
  /\ UNCHANGED exceptLoad

\* Scene::ParseSphere (ParseQuad, ParseCuboid and ParseMesh alike): the
\* object is added, and SetMaterial is called when the block names a
\* material of the list.
ParseSphere(object_material) ==
  /\ Len(object_materials) < MaxLoaded
  /\ object_materials' =
       Append(object_materials,
              IF IsListed(object_material) THEN material_list[object_material]
              ELSE NewObjectMaterial)
  /\ UNCHANGED <<material_list, sky_material_, last_material>>
  /\ UNCHANGED exceptLoad

\* Scene::ParseSky: the listed material becomes the sky material through a
\* static_pointer_cast<LightMaterial>, whatever its class.
ParseSky(object_material) ==
  /\ sky_material_' =
       IF IsListed(object_material) THEN material_list[object_material]
       ELSE sky_material_
  /\ UNCHANGED <<material_list, object_materials, last_material>>
  /\ UNCHANGED exceptLoad

\* SphericalObject::Trace and the other Trace methods:
\* hit_info->surface_material = material_.get() for a ray that strikes
\* object i.
CollisionMaterial(i) == object_materials[i]

\* The material blocks of the loader specification: a light, a mirror and
\* a diffuse surface.
FewBlocks ==
  {b \in MaterialBlocks :
     /\ b.roughness = 0
     /\ b.brdf = 0
     /\ \/ b.emission = <<2, 0, 0>> /\ b.metallic = 0
        \/ b.emission = <<0, 0, 0>> /\ b.metallic \in {0, 2}}

NextLoad ==
  \/ \E n \in MaterialNames : \E b \in FewBlocks : ParseMaterial(n, b)
  \/ AddSphericalObject
  \/ \E i \in 1 .. MaxLoaded : \E n \in MaterialNames :
       /\ n \in DOMAIN material_list
       /\ SetMaterial(i, material_list[n])
  \/ \E n \in MaterialNames \cup {NoName} : ParseSphere(n)
  \/ \E n \in MaterialNames \cup {NoName} : ParseSky(n)

-----------------------------------------------------------------------------
(***************************************************************************)
(* The diffuse texture of a material (material.cpp) and LoadBitmap         *)
(* (bitmap.cpp).  A bitmap file is held by what LoadBitmap reads of it:    *)
(* whether each header can be read, the bit_count, width and height of     *)
(* the info header, and the bytes that follow the headers.  A texel is     *)
(* held in units of 1/255, so that byte b converts to the number b.        *)
(***************************************************************************)

\* The largest width and height of the bitmaps followed.
MaxTexWidth == 2
MaxTexHeight == 2

\* bih.bit_count of the files followed.
BitCounts == {8, 24, 32}

\* Values an unset uint32 member can hold.
UnsetSizes == {0, 7}

\* Bytes of pixel data: the byte at offset k of a file of seed s.
ByteSeeds == {85, 171}
FileByte(file, k) == (file.seed * (k + 1)) % 256

\* greater_multiple(value, multiple): the least multiple of multiple that
\* is not below value.
greater_multiple(value, multiple) ==
  ((value + multiple - 1) \div multiple) * multiple

\* Bytes a complete 24-bit image of the given size takes after the headers.
ImageBytes(w, h) == h * greater_multiple(w * 3, 4)

Extensions == {".bmp", ".txt"}

\* Every record of a file's fields; data_size is the number of bytes the
\* file holds after its two headers.
FileRecords ==
  UNION {[extension : Extensions, file_header : BOOLEAN,
          info_header : BOOLEAN, bit_count : BitCounts, width : {w},
          height : {h}, data_size : 0 .. ImageBytes(w, h),
          seed : ByteSeeds] : w \in 1 .. MaxTexWidth, h \in 1 .. MaxTexHeight}

\* The files: one that ends inside a header holds nothing of what follows
\* (the fields LoadBitmap never reads are then fixed), and a file that is
\* not a bitmap is one file.
BitmapFiles ==
  {f \in FileRecords :
     /\ ~f.file_header => ~f.info_header
     /\ ~f.info_header =>
          /\ f.bit_count = 24 /\ f.width = 1 /\ f.height = 1
          /\ f.data_size = 0
     /\ (f.data_size = 0 \/ f.bit_count # 24) => f.seed = 85
     /\ f.extension # ".bmp" =>
          /\ f.file_header /\ f.info_header /\ f.bit_count = 24
          /\ f.width = 1 /\ f.height = 1 /\ f.data_size = 0}

\* ::std::vector<float32>::resize: the elements kept, then zeros.
Resize(buffer, n) ==
  [k \in 1 .. n |-> IF k <= Len(buffer) THEN buffer[k] ELSE 0]

\* The conversion loop of row i: the three bytes of texel j are stored in
\* the order 2, 1, 0.
StoreRow(file, buffer, i) ==
  LET row_stride == file.width * 3
      row_start == i * greater_multiple(row_stride, 4)
  IN  [k \in 1 .. Len(buffer) |->
         IF (k - 1) \div row_stride = i
           THEN LET j == ((k - 1) % row_stride) \div 3
                    c == (k - 1) % 3
                IN  FileByte(file, row_start + j * 3 + (2 - c))
           ELSE buffer[k]]

\* The row loop of LoadBitmap from row i on: the value returned and the
\* output buffer.
RECURSIVE ReadRows(_, _, _)
ReadRows(file, buffer, i) ==
  LET row_stride == file.width * 3
      row_end == i * greater_multiple(row_stride, 4) + row_stride
      padding_end == (i + 1) * greater_multiple(row_stride, 4)
  IN  IF i >= file.height THEN [returned |-> TRUE, buffer |-> buffer]
      ELSE IF file.data_size < row_end
        THEN [returned |-> FALSE, buffer |-> buffer]
      ELSE IF file.data_size < padding_end
        THEN [returned |-> FALSE, buffer |-> buffer]
      ELSE ReadRows(file, StoreRow(file, buffer, i), i + 1)

\* LoadBitmap(filename, &map.buffer, &map.width, &map.height): the value
\* returned and the Texture afterwards.
LoadBitmap(file, map) ==
  IF ~file.file_header THEN [returned |-> FALSE, map |-> map]
  ELSE IF ~file.info_header THEN [returned |-> FALSE, map |-> map]
  ELSE IF file.bit_count # 24 THEN [returned |-> FALSE, map |-> map]
  ELSE LET rows == ReadRows(file, Resize(map.buffer,
                                         file.width * file.height * 3), 0)
       IN  [returned |-> rows.returned,
            map |-> [map EXCEPT !.buffer = rows.buffer,
                                !.width = file.width,
                                !.height = file.height]]

\* Texture coordinates in halves, and the texture scales followed.
TexCoords == {<<0, 0>>, <<1, 2>>, <<2, 1>>, <<2, 2>>}
TexScales == {1}

\* The conversion to uint32 of coord * scale * size + 0.5f - 1, for a
\* coordinate in halves, taken modulo size.
TexelIndex(coord, scale, size) ==
  LET halves == coord * scale * size + 1 - 2
  IN  (IF halves < 0 THEN 0 ELSE halves \div 2) % size

\* The test of SampleDiffuse and of LightMaterial::Sample for a texture.
HasTexture(map) == Len(map.buffer) # 0 /\ map.width # 0 /\ map.height # 0

\* DiffuseMaterial::SampleDiffuse.
SampleDiffuseOf(map, diffuse, scale, texcoords) ==
  IF HasTexture(map)
    THEN LET x_tex_coord == TexelIndex(texcoords[1], scale, map.width)
             y_tex_coord == TexelIndex(texcoords[2], scale, map.height)
             pixel_offset == y_tex_coord * map.width * 3 + x_tex_coord * 3
         IN  <<map.buffer[pixel_offset + 1], map.buffer[pixel_offset + 2],
               map.buffer[pixel_offset + 3]>>
    ELSE diffuse

\* Plain colours of the materials, in units of 1/255.
DiffuseColors == {<<255, 255, 255>>, <<204, 51, 0>>}

\* DiffuseMaterial(): a material with no texture and a black colour.
InitTexture ==
  /\ diffuse_map_ = [filename |-> Null, width |-> 0, height |-> 0,
                     buffer |-> <<>>]
  /\ diffuse_ = <<0, 0, 0>>
  /\ texture_scale_ = 0
  /\ texture_load = Null
  /\ material_diffuse = Null

\* ParseMaterial's make_shared<DiffuseMaterial>(color): the texture has an
\* empty buffer and an empty filename; its width and height are not set.
NewDiffuseMaterial(color, w, h) ==
  /\ diffuse_' = color
  /\ diffuse_map_' = [filename |-> Null, width |-> w, height |-> h,
                      buffer |-> <<>>]
  /\ texture_scale_' = 0
  /\ texture_load' = Null
  /\ material_diffuse' = Null
  /\ UNCHANGED exceptTexture

\* DiffuseMaterial::LoadDiffuseTexture as ParseMaterial calls it, once on
\* the material it has just made.  The value LoadBitmap returns is
\* dropped; a file of another extension is not opened.
LoadDiffuseTexture(file, tex_scale) ==
  /\ diffuse_map_.filename = Null
  /\ texture_scale_' = tex_scale
  /\ LET named == [diffuse_map_ EXCEPT !.filename = file]
         loaded == LoadBitmap(file, named)
     IN  IF file.extension = ".bmp"
           THEN /\ diffuse_map_' = loaded.map
                /\ texture_load' = [file |-> file,
                                    returned |-> loaded.returned]
           ELSE /\ diffuse_map_' = named
                /\ texture_load' = Null
  /\ material_diffuse' = Null
  /\ UNCHANGED diffuse_
  /\ UNCHANGED exceptTexture

\* DiffuseMaterial::SampleDiffuse(texcoords) on the material.
SampleDiffuse(texcoords) ==
  /\ diffuse_map_.filename # Null
  /\ material_diffuse' =
       [texcoords |-> texcoords,
        color |-> SampleDiffuseOf(diffuse_map_, diffuse_, texture_scale_,
                                  texcoords)]
  /\ UNCHANGED <<diffuse_map_, diffuse_, texture_scale_, texture_load>>
  /\ UNCHANGED exceptTexture

NextTexture ==
  \/ \E color \in DiffuseColors : \E w, h \in UnsetSizes :
       NewDiffuseMaterial(color, w, h)
  \/ \E file \in BitmapFiles : \E s \in TexScales :
       LoadDiffuseTexture(file, s)
  \/ \E t \in TexCoords : SampleDiffuse(t)
-----------------------------------------------------------------------------
(* ImagePlaneCache *)

\* An Invalidate that marks the first n entries as cached.
InvalidateFlagsSet(flags, n) ==
  [i \in FrameIndices |-> IF i < n THEN TRUE ELSE flags[i]]

\* ImagePlaneCache::Invalidate: the first n flags are cleared, n being
\* width_ * height_.
InvalidateFlags(flags, n) ==
  [i \in FrameIndices |-> IF i < n THEN FALSE ELSE flags[i]]

\* ImagePlaneCache::CacheCollision on <<invalidation_cache_,
\* collision_cache_>>: the collision is stored; the flag of the pixel is
\* not touched.
CacheCollision(caches, hit, x, y) ==
  << caches[1], [caches[2] EXCEPT ![PixelIndex(x, y)] = hit] >>

\* ImagePlaneCache::FetchCollision
FetchCollision(flags, collisions, x, y) ==
  IF flags[PixelIndex(x, y)] THEN collisions[PixelIndex(x, y)] ELSE Null

NoFlags == [i \in FrameIndices |-> FALSE]
NoHits == [i \in FrameIndices |-> Null]

\* No ImagePlaneCache has been constructed yet.
InitCache ==
  /\ cache_state = "none"
  /\ invalidation_cache_ = NoFlags
  /\ collision_cache_ = [i \in FrameIndices |-> EmptyCollision]
  /\ cached_since = NoFlags
  /\ first_hit = NoHits
  /\ last_step = Null

\* Values the uninitialised width_ * height_ can hold when the constructor
\* calls Invalidate() before it sets width_ and height_.
GarbageCounts == {0, 1, FrameW, FrameW + 1}

\* ImagePlaneCache::ImagePlaneCache: both vectors are resized (flags false,
\* collisions default), then Invalidate() runs over width_ * height_
\* entries read before they are set; .at() throws past the end.
ConstructCache ==
  /\ cache_state = "none"
  /\ \E n \in GarbageCounts :
       IF n <= FrameW
         THEN /\ cache_state' = "live"
              /\ invalidation_cache_' = InvalidateFlags(NoFlags, n)
         ELSE /\ cache_state' = "failed"
              /\ UNCHANGED invalidation_cache_
  /\ collision_cache_' = [i \in FrameIndices |-> EmptyCollision]
  /\ cached_since' = NoFlags
  /\ first_hit' = NoHits
  /\ last_step' = Null
  /\ UNCHANGED exceptCache

\* ImagePlaneCache::Invalidate on a constructed cache.
Invalidate ==
  /\ cache_state = "live"
  /\ invalidation_cache_' = InvalidateFlags(invalidation_cache_, FrameW)
  /\ cached_since' = NoFlags
  /\ first_hit' = NoHits
  /\ last_step' = Null
  /\ UNCHANGED <<cache_state, collision_cache_>>
  /\ UNCHANGED exceptCache

\* One pixel of TraceThreadFunction's loop: TracePixel with jitter draw a,
\* with or without the first-bounce cache, then
\* DisplayFrame::WritePixel(const TraceResult&, x, y).
RenderPixel(x, y, a, cache) ==
  /\ cache => cache_state = "live"
  /\ MaySample
  /\ LET i == PixelIndex(x, y)
         fetched == IF cache
                      THEN FetchCollision(invalidation_cache_,
                                          collision_cache_, x, y)
                      ELSE Null
     IN  \E t \in {TracePixel(scene, fast_render_enabled, <<x, y>>, a, cache,
                              fetched)} :
           /\ \E caches \in
                 {IF t.store # Null
                    THEN CacheCollision(<<invalidation_cache_,
                                          collision_cache_>>, t.store, x, y)
                    ELSE <<invalidation_cache_, collision_cache_>>} :
                /\ invalidation_cache_' = caches[1]
                /\ collision_cache_' = caches[2]
           /\ cached_since' =
                IF t.store # Null THEN [cached_since EXCEPT ![i] = TRUE]
                                  ELSE cached_since
           /\ first_hit' =
                IF t.store # Null /\ first_hit[i] = Null
                  THEN [first_hit EXCEPT
                          ![i] = [normal |-> t.result.normal,
                                  depth |-> t.result.depth,
                                  material_id |-> t.result.material_id]]
                  ELSE first_hit
           /\ last_step' =
                [index |-> i, pixel |-> <<x, y>>, jitter |-> a,
                 cache |-> cache, primed |-> cached_since[i],
                 fetched |-> fetched, traces |-> t.traces,
                 primary_traced |-> ~(cache /\ fetched # Null),
                 result |-> t.result]
           /\ WriteResult(x, y, t.result)
  /\ UNCHANGED cache_state
  /\ UNCHANGED exceptCacheFrame

\* No TraceScene call is in progress.
IdleRender ==
  /\ width = FrameW
  /\ height = 1
  /\ concurrency = 1
  /\ cache_given = FALSE
  /\ pcMain = "idle"
  /\ thread_idx = 0
  /\ join_idx = 0
  /\ thread_state = [k \in {0} |-> "none"]
  /\ thread_ray_count = [k \in {0} |-> 0]
  /\ written = [k \in {0} |-> {}]
  /\ cached = [k \in {0} |-> {}]
  /\ total_frame_rays = 0
  /\ frame_counter = 0
  /\ frame_count_ = 0
  /\ hit_pixels = {}

\* The cache specification: one cache and one frame; pixels are rendered
\* one at a time, with the cache invalidated at any moment.  Fast render
\* is tried on the scene with the deepest paths.
InitCacheSpec ==
  /\ IdleRender
  /\ scene \in Scenes
  /\ fast_render_enabled \in {FALSE, scene = MirrorScene}
  /\ InitCache
  /\ InitFrame
  /\ InitScene
  /\ InitMesh
  /\ InitPath
  /\ InitLoad
  /\ InitTexture

NextCache ==
  \/ ConstructCache
  \/ Invalidate
  \/ \E p \in FramePixels : \E a \in Jitters : \E cache \in BOOLEAN :
       RenderPixel(p[1], p[2], a, cache)

SpecCache == InitCacheSpec /\ [][NextCache]_vars

\* The frame specification: callers write samples into one frame.
InitFrameSpec ==
  /\ IdleRender
  /\ fast_render_enabled = FALSE
  /\ scene = EmptyScene
  /\ InitCache
  /\ InitFrame
  /\ InitScene
  /\ InitMesh
  /\ InitPath
  /\ InitLoad
  /\ InitTexture

SpecFrame == InitFrameSpec /\ [][NextFrame]_vars

\* The render specification: one TraceScene call; the frame and the cache
\* are tracked through the pixels handed to them.
InitRenderSpec ==
  /\ InitRender
  /\ InitCache
  /\ InitFrame
  /\ InitScene
  /\ InitMesh
  /\ InitPath
  /\ InitLoad
  /\ InitTexture
  /\ scene = EmptyScene

SpecRender == InitRenderSpec /\ [][NextRender]_vars

-----------------------------------------------------------------------------
(* Claims about the worker pool. *)

\* C1: during one TraceScene call no pixel is handed to WritePixel, and no
\* pixel is handed to the first-bounce cache, by two different workers.
C1_DisjointBands ==
  \A k1 \in Threads : \A k2 \in Threads :
    k1 # k2 => /\ written[k1] \cap written[k2] = {}
               /\ cached[k1] \cap cached[k2] = {}

\* C2: when TraceScene has returned, every pixel of the frame has been
\* written by some worker.
C2_BandsCover ==
  pcMain = "done" => \A p \in AllPixels : \E k \in Threads : p \in written[k]

-----------------------------------------------------------------------------
(* Claims about the first-bounce cache. *)

\* C3: once a depth-0 TraceStep with the cache supplied has hit an object
\* at a pixel, every later depth-0 TraceStep with the cache at that pixel,
\* until the next Invalidate, gets the stored collision from
\* FetchCollision and does not call scene.Trace for the primary ray.
C3_CachedStepFetches ==
  (last_step # Null /\ last_step.cache /\ last_step.primed)
    => (last_step.fetched # Null /\ ~last_step.primary_traced)

\* C4: with the same cache and no Invalidate in between, a later cached
\* render of a pixel whose primary ray hit an object in the first render
\* leaves the normal, material id and depth of the first render in the
\* frame's auxiliary buffers, whatever jitter it draws.
C4_SecondRenderSame ==
  (last_step # Null /\ last_step.cache /\ last_step.primed)
    => /\ normal_buffer_[last_step.index] = first_hit[last_step.index].normal
       /\ material_id_buffer_[last_step.index] =
            first_hit[last_step.index].material_id
       /\ depth_buffer_[last_step.index] = first_hit[last_step.index].depth

\* C5: on a constructed cache, FetchCollision answers nullptr for every
\* pixel for which no collision has been cached since the construction or
\* the last Invalidate.
C5_FetchNullUntilCached ==
  cache_state = "live" =>
    \A p \in FramePixels :
      ~cached_since[PixelIndex(p[1], p[2])] =>
        FetchCollision(invalidation_cache_, collision_cache_, p[1], p[2]) = Null

\* A collision was cached for a pixel and the cache invalidated afterwards.
C5_Witness ==
  /\ cache_state = "live"
  /\ \E i \in FrameIndices :
       collision_cache_[i] # EmptyCollision /\ ~cached_since[i]

-----------------------------------------------------------------------------
(* Claims about the frame accumulator. *)

\* C10: the stored sample count of every pixel equals the number of
\* WritePixel calls made at that pixel since the last Reset, whatever the
\* samples and whatever was written to other pixels in between; and a
\* step that writes no sample at a pixel leaves the count and the mean of
\* that pixel as they were.
C10_CountIsWrites ==
  /\ [](\A i \in FrameIndices : count_buffer_[i] = writes[i])
  /\ [][\A i \in FrameIndices :
          writes'[i] = writes[i] =>
            /\ count_buffer_'[i] = count_buffer_[i]
            /\ render_target_'[i] = render_target_[i]]_vars

\* A pixel has been written twice and another pixel once, with different
\* means.
C10_Witness ==
  \E i \in FrameIndices : \E j \in FrameIndices :
    /\ i # j
    /\ writes[i] = 2
    /\ writes[j] = 1
    /\ count_buffer_[i] = 2
    /\ render_target_[i] # render_target_[j]


(***************************************************************************)
(* The scene specification: callers add objects of one layout, optimize    *)
(* and trace in any order.                                                 *)
(***************************************************************************)
InitSceneSpec ==
  /\ IdleRender
  /\ fast_render_enabled = FALSE
  /\ scene = EmptyScene
  /\ InitCache
  /\ InitFrame
  /\ InitScene
  /\ InitMesh
  /\ InitPath
  /\ InitLoad
  /\ InitTexture

NextScene ==
  \/ AddObject
  \/ Optimize
  \/ \E r \in FewRays : SceneTrace(r)

SpecScene == InitSceneSpec /\ [][NextScene]_vars

\* floor(log8(n) + 0.5) - 2 > 0 for n >= 1: log8(n) >= 2.5, n^2 >= 8^5.
DepthFormulaPositive(n) == n * n >= 8^5

C7_OptimizeEnablesBvh ==
  (last_trace # Null /\ last_call = "Optimize" /\ Len(object_list_) >= 2) =>
    last_trace.used_tree

(***************************************************************************)
(* The traversal specification: a scene populated by Add*Object calls is   *)
(* optimized and one ray is traced through it.                             *)
(***************************************************************************)
InitBvhSpec ==
  /\ IdleRender
  /\ fast_render_enabled = FALSE
  /\ scene = EmptyScene
  /\ InitCache
  /\ InitFrame
  /\ InitMesh
  /\ InitPath
  /\ InitLoad
  /\ InitTexture
  /\ \E layout \in Layouts : \E n \in (MaxObjects - 1) .. MaxObjects :
       object_list_ = LayoutObjects(layout, n)
  /\ is_tree_valid_ = FALSE
  /\ object_tree_ = Null
  /\ tree_objects_ = <<>>
  /\ last_call = "Add"
  /\ ideal_depth = 0
  /\ trajectory = MakeRay(<<0, 0, 0>>, <<0, 0, 1>>)
  /\ last_trace = Null

NextBvh ==
  /\ last_trace = Null
  /\ \/ Optimize
     \/ \E r \in SceneRays : SceneTrace(r)

SpecBvh == InitBvhSpec /\ [][NextBvh]_vars

\* C9: through the BVH, Scene::Trace reports a hit exactly when the linear
\* sweep over the same objects does, with the same param.
C9_BvhMatchesSweep ==
  (last_trace # Null /\ last_trace.used_tree) =>
    /\ last_trace.result = last_trace.linear.result
    /\ last_trace.hit_info.param = last_trace.linear.hit_info.param

(***************************************************************************)
(* The mesh specification: a mesh is loaded and one ray is traced through  *)
(* its BVH.                                                                *)
(***************************************************************************)
InitMeshSpec ==
  /\ IdleRender
  /\ fast_render_enabled = FALSE
  /\ scene = EmptyScene
  /\ InitCache
  /\ InitFrame
  /\ InitScene
  /\ InitMesh
  /\ InitPath
  /\ InitLoad
  /\ InitTexture

BestParams == {DefaultParam, 32}

NextMesh ==
  \/ \E n \in MeshSizes : LoadMesh("lattice", n, TRUE)
  \/ /\ last_mesh_trace = Null
     /\ \E r \in MeshRays : \E best \in BestParams : MeshTrace(r, best)

SpecMesh == InitMeshSpec /\ [][NextMesh]_vars

\* The params below best at which the ray strikes a face of the list.
FaceParams(faces, r, best) ==
  {ray_intersect_triangle(faces[i], r).param :
     i \in {j \in 1 .. Len(faces) :
              /\ ray_intersect_triangle(faces[j], r).hit
              /\ ray_intersect_triangle(faces[j], r).param < best}}

\* C8: MeshBvh::Trace reports a hit exactly when some face is struck below
\* the incoming best, and then with the least such param.
C8_MeshBvhMatchesLinear ==
  last_mesh_trace # Null =>
    /\ last_mesh_trace.result = (FaceParams(face_list, trajectory, incoming) # {})
    /\ last_mesh_trace.result =>
         last_mesh_trace.hit_info.param =
           SetMin(FaceParams(face_list, trajectory, incoming))

-----------------------------------------------------------------------------
(* More claims about the frame accumulator. *)

\* The pixels into which one colour only has been written since the last
\* Reset, with that colour.
EqualWrites ==
  {<<i, c>> \in FrameIndices \X SampleColors : sampled[i] = {c}}

\* C11 (as stated): after N >= 1 writes of the same colour c into a pixel
\* since the last Reset, the stored mean of the pixel equals c.
C11_MeanOfEqualWrites ==
  \A e \in EqualWrites : render_target_[e[1]] = e[2]

\* C11 (amended): after one or two writes of the same colour c into a pixel
\* since the last Reset, and after any number of writes of black, the
\* stored mean of the pixel equals c; from the third write on the float32
\* mean may differ from c in its last bits.
C11_MeanOfFewEqualWrites ==
  \A e \in EqualWrites :
    (writes[e[1]] <= 2 \/ e[2] = Black) => render_target_[e[1]] = e[2]

\* A colour that is no power of two has been written twice into a pixel.
C11_Witness ==
  \E e \in EqualWrites :
    /\ writes[e[1]] = 2
    /\ e[2][1] = Float09
    /\ render_target_[e[1]] = e[2]

\* C12: after Reset(), whatever was written before, every pixel's running
\* mean, sample count, display bytes, normal, depth and material id are
\* zero until the pixel is written again, and the first WritePixel at a
\* pixel after the Reset stores exactly its sample as the mean, with
\* count 1.
C12_ResetZeroes ==
  /\ \A i \in FrameIndices :
       writes[i] = 0 =>
         /\ render_target_[i] = Black
         /\ count_buffer_[i] = 0
         /\ display_buffer_[i] = Black
         /\ normal_buffer_[i] = Black
         /\ depth_buffer_[i] = 0
         /\ material_id_buffer_[i] = 0
  /\ \A e \in EqualWrites :
       writes[e[1]] = 1 =>
         /\ render_target_[e[1]] = e[2]
         /\ count_buffer_[e[1]] = 1

\* A Reset has discarded two samples or more, one pixel has been written
\* once since and another is still untouched.
C12_Witness ==
  /\ cleared >= 2
  /\ \E e \in EqualWrites : \E j \in FrameIndices :
       /\ writes[e[1]] = 1
       /\ e[2] # Black
       /\ render_target_[e[1]] = e[2]
       /\ writes[j] = 0
       /\ count_buffer_[j] = 0

-----------------------------------------------------------------------------
(***************************************************************************)
(* The path specification: samples are traced one after another, each      *)
(* TraceStep call in two steps.  TracePixel is sequential code, so a call  *)
(* that can take its next step takes it.                                   *)
(***************************************************************************)
InitPathSpec ==
  /\ IdleRender
  /\ scene \in Scenes
  /\ fast_render_enabled \in BOOLEAN
  /\ InitCache
  /\ InitFrame
  /\ InitScene
  /\ InitMesh
  /\ InitPath
  /\ InitLoad
  /\ InitTexture

SpecPath == InitPathSpec /\ [][NextPath]_vars

SpecPathFair == SpecPath /\ WF_vars(PathEnter) /\ WF_vars(PathShade)

\* C13: every TracePixel call returns; no TraceStep call goes past its
\* depth test at depth >= 32, the calls of one sample have depths 0, 1, 2,
\* ... with one call per depth, and at most 32 scene traces are made per
\* sample.
C13_PathTerminates ==
  /\ [](path_traces <= kMaximumTraceDepth)
  /\ [](path_depth <= kMaximumTraceDepth /\ Len(path_hits) <= path_depth + 1)
  /\ [][path_traces' = path_traces + 1 => path_depth < kMaximumTraceDepth]_vars
  /\ (path_phase = "call") ~> (path_phase = "done")

\* Two facing mirrors: the sample has returned after 32 scene traces.
C13_Witness ==
  /\ scene = MirrorScene
  /\ ~fast_render_enabled
  /\ path_phase = "done"
  /\ path_traces = kMaximumTraceDepth
  /\ path_result.ray_count = kMaximumTraceDepth

\* C14: with fast render enabled the TraceResult of every sample has
\* ray_count <= 2, and no scene trace is made at depth > 1.
C14_FastRenderCap ==
  /\ [](fast_render_enabled =>
          /\ path_result.ray_count <= 2
          /\ path_traces <= 2)
  /\ [][(fast_render_enabled /\ path_traces' = path_traces + 1)
          => path_depth <= 1]_vars

\* Fast render between two mirrors: the sample has returned with two rays
\* counted, the call of depth 2 having returned white.
C14_Witness ==
  /\ fast_render_enabled
  /\ scene = MirrorScene
  /\ path_phase = "done"
  /\ path_result.ray_count = 2
  /\ path_traces = 2
  /\ path_returned = White

-----------------------------------------------------------------------------
(* Claims about the sky. *)

\* The latest sample traced its primary ray and the ray struck nothing.
PrimaryMissed ==
  /\ last_step # Null
  /\ last_step.primary_traced
  /\ scene.primary[last_step.pixel][last_step.jitter] = 0

\* C15: when the primary ray of a pixel misses all geometry, the
\* TraceResult of the pixel holds the sky sample as colour, the id of the
\* sky material and z_far as depth, and the frame stores them; in an empty
\* scene the depth buffer holds z_far at every rendered pixel.
C15_MissRecordsSky ==
  /\ PrimaryMissed =>
       /\ last_step.result.color = SampleSky
       /\ last_step.result.material_id = SkyMaterialId
       /\ last_step.result.depth = ZFar
       /\ material_id_buffer_[last_step.index] = SkyMaterialId
       /\ depth_buffer_[last_step.index] = ZFar
  /\ scene = EmptyScene =>
       \A i \in FrameIndices : writes[i] > 0 => depth_buffer_[i] = ZFar

\* A primary ray has missed in a scene that holds geometry, at a pixel
\* whose previous sample struck an object.
C15_Witness ==
  /\ PrimaryMissed
  /\ scene = EdgeScene
  /\ writes[last_step.index] >= 2
  /\ last_step.result.ray_count = 1
  /\ depth_buffer_[last_step.index] = ZFar

-----------------------------------------------------------------------------
(***************************************************************************)
(* The loader specification: blocks of a scene file are parsed in any      *)
(* order and objects are added through the Add*Object calls.               *)
(***************************************************************************)
InitLoadSpec ==
  /\ IdleRender
  /\ fast_render_enabled = FALSE
  /\ scene = EmptyScene
  /\ InitCache
  /\ InitFrame
  /\ InitScene
  /\ InitMesh
  /\ InitPath
  /\ InitLoad
  /\ InitTexture

SpecLoad == InitLoadSpec /\ [][NextLoad]_vars

\* C16: every object of a scene, whether created through an Add*Object
\* call or through a block of a scene file, owns a material, so that every
\* collision Scene::Trace reports carries a non-null surface_material.
C16_ObjectsOwnMaterial ==
  \A i \in 1 .. Len(object_materials) : CollisionMaterial(i) # NullMaterial

\* C17: the sky material of a scene is a Light, whatever blocks were
\* parsed.
C17_SkyIsLight == sky_material_ = "Light"

-----------------------------------------------------------------------------
(* The material specification: material blocks of every content are parsed. *)

NextMaterial == \E b \in MaterialBlocks : ParseMaterial("a", b)

SpecMaterial == InitLoadSpec /\ [][NextMaterial]_vars

\* The variant the selection order gives when "set" means positive.
VariantByPositive(b) ==
  IF b.emission[1] > 0 \/ b.emission[2] > 0 \/ b.emission[3] > 0 THEN "Light"
  ELSE IF b.roughness > 0 THEN "Ceramic"
  ELSE IF b.metallic > 0
    THEN (IF b.metallic = 2 THEN "Mirror" ELSE "Metal")
  ELSE IF b.brdf = 1 THEN "Liquid"
  ELSE IF b.brdf = 2 THEN "Glass"
  ELSE "Diffuse"

\* C18 (as stated): at the end of a material block the variant is Light
\* when an emission component is > 0; else Ceramic when roughness > 0;
\* else Mirror (metallic = 1) or Metal when metallic > 0; else Liquid when
\* brdf = 1; else Glass when brdf = 2; otherwise Diffuse.
C18_VariantByPositive ==
  last_material # Null =>
    /\ last_material.variant = VariantByPositive(last_material.block)
    /\ material_list[last_material.name] = last_material.variant

\* C18 (amended): the same priority with "not zero" in the place of
\* "> 0": a non-zero emission component gives Light; else a non-zero
\* roughness gives Ceramic; else a non-zero metallic gives Mirror when it
\* is 1 and Metal otherwise; else brdf = 1 gives Liquid; else brdf = 2
\* gives Glass; otherwise Diffuse.
C18_VariantByNonZero ==
  last_material # Null =>
    LET b == last_material.block
        v == material_list[last_material.name]
        lit == \E c \in 1 .. 3 : b.emission[c] # 0
        rough == ~lit /\ b.roughness # 0
        metal == ~lit /\ b.roughness = 0 /\ b.metallic # 0
        plain == ~lit /\ b.roughness = 0 /\ b.metallic = 0
    IN  /\ v = last_material.variant
        /\ lit => v = "Light"
        /\ rough => v = "Ceramic"
        /\ (metal /\ b.metallic = 2) => v = "Mirror"
        /\ (metal /\ b.metallic # 2) => v = "Metal"
        /\ (plain /\ b.brdf = 1) => v = "Liquid"
        /\ (plain /\ b.brdf = 2) => v = "Glass"
        /\ (plain /\ b.brdf \notin {1, 2}) => v = "Diffuse"

\* A block that sets roughness, metallic and brdf at once has given a
\* ceramic.
C18_Witness ==
  /\ last_material # Null
  /\ last_material.block.emission = <<0, 0, 0>>
  /\ last_material.block.roughness = 1
  /\ last_material.block.metallic = 2
  /\ last_material.block.brdf = 1
  /\ material_list[last_material.name] = "Ceramic"

-----------------------------------------------------------------------------
(* More claims about the worker pool. *)

\* C19: when the main thread of TraceScene has left its join loop, every
\* worker has been joined after rendering its whole band and counting its
\* rays; the counters are summed and the frame count is set after that;
\* and a counter entry changes only in a step of the worker that owns it.
C19_JoinBeforeSum ==
  /\ [](pcMain \in {"sum", "done"} =>
          \A k \in Threads :
            /\ thread_state[k] = "joined"
            /\ written[k] = BandPixels(width, height, concurrency, k)
            /\ thread_ray_count[k] = SumRays(written[k]))
  /\ [](pcMain = "done" =>
          /\ frame_count_ = frame_counter
          /\ ~fast_render_enabled =>
               total_frame_rays = SumCounters(thread_ray_count, concurrency))
  /\ [][\A k \in Threads :
          thread_ray_count'[k] # thread_ray_count[k] =>
            /\ thread_state[k] = "running"
            /\ thread_state'[k] = "done"
            /\ \A j \in Threads \ {k} :
                 thread_ray_count'[j] = thread_ray_count[j]]_vars

\* TraceScene has returned on a machine with MaxWorkers hardware threads
\* after summing the rays of a frame in which every primary ray hit.
C19_Witness ==
  /\ pcMain = "done"
  /\ concurrency = MaxWorkers
  /\ ~fast_render_enabled
  /\ \A k \in Threads : thread_state[k] = "joined" /\ written[k] # {}
  /\ total_frame_rays = 2 * width * height

(***************************************************************************)
(* Building and tracing BVHs over empty inputs (scene.cpp, mesh.cpp).      *)
(***************************************************************************)
InitEmptySpec == InitMeshSpec

EmptyMeshSizes == {0, kMaxFaceCountPerNode + 1}

\* A mesh file with or without faces, loaded with or without a transform,
\* and a scene that holds no object; each is built and traced.
NextEmpty ==
  \/ \E n \in EmptyMeshSizes : \E transform_needed \in BOOLEAN :
       LoadMesh("lattice", n, transform_needed)
  \/ /\ last_mesh_trace = Null
     /\ \E r \in FewRays : \E best \in BestParams : MeshTrace(r, best)
  \/ Optimize
  \/ /\ last_trace = Null
     /\ \E r \in FewRays : SceneTrace(r)

SpecEmpty == InitEmptySpec /\ [][NextEmpty]_vars

\* C20: BuildBvh on an empty input (a scene without objects, a mesh without
\* vertices or without faces) creates no root node, and Trace on a BVH
\* without a root returns false and leaves the caller's hit_info as it was.
C20_EmptyBvh ==
  /\ (mesh_loaded /\ (vertices_ = 0 \/ face_list = <<>>)) => shape_tree = Null
  /\ (last_call = "Optimize" /\ object_list_ = <<>>) => object_tree_ = Null
  /\ (last_mesh_trace # Null /\ shape_tree = Null) =>
       /\ last_mesh_trace.result = FALSE
       /\ last_mesh_trace.hit_info =
            [param |-> incoming, point |-> <<0, 0, 0>>, index |-> 0]
  /\ (last_trace # Null /\ last_trace.used_tree /\ object_tree_ = Null) =>
       /\ last_trace.result = FALSE
       /\ last_trace.hit_info = NewCollision

\* A mesh with faces but no vertices and a scene without objects whose tree
\* Optimize enabled have both been built and traced.
C20_Witness ==
  /\ mesh_loaded /\ vertices_ = 0 /\ face_list # <<>>
  /\ last_mesh_trace # Null /\ shape_tree = Null
  /\ object_list_ = <<>> /\ is_tree_valid_
  /\ last_trace # Null /\ last_trace.used_tree /\ object_tree_ = Null

(***************************************************************************)
(* The build specification: a populated scene is optimized and a mesh file *)
(* is loaded, which builds both BVHs; each is then traced once.            *)
(***************************************************************************)
InitBuildSpec == InitBvhSpec

NextBuild ==
  \/ /\ last_trace = Null
     /\ Optimize
  \/ /\ last_trace = Null
     /\ \E r \in FewRays : SceneTrace(r)
  \/ \E file \in MeshFiles : \E n \in MeshSizes : LoadMesh(file, n, TRUE)
  \/ /\ last_mesh_trace = Null
     /\ \E r \in FewRays : \E best \in BestParams : MeshTrace(r, best)

SpecBuild == InitBuildSpec /\ [][NextBuild]_vars

\* The nodes of the subtree below and including node.
RECURSIVE Nodes(_)
Nodes(node) ==
  {node} \cup UNION {Nodes(node.children_[c]) : c \in 1 .. Len(node.children_)}

TreeNodes(tree) == IF tree = Null THEN {} ELSE Nodes(tree)

\* A node is either subdivided (eight children, no payload, not a leaf) or
\* a leaf without children.
NodeShape(node) ==
  /\ node.children_ # <<>> =>
       /\ ~node.is_leaf_node_
       /\ node.indices_ = <<>>
       /\ Len(node.children_) = 8
  /\ node.is_leaf_node_ => node.children_ = <<>>
  /\ node.indices_ # <<>> => node.is_leaf_node_

\* C21: in every built BVH, mesh and scene, a subdivided node is no leaf,
\* holds no payload and has exactly eight children, a leaf has no children,
\* and payload indices are held by leaves only.
C21_NodeShape ==
  /\ \A node \in TreeNodes(object_tree_) : NodeShape(node)
  /\ \A node \in TreeNodes(shape_tree) : NodeShape(node)

\* Both trees are built and both roots were subdivided.
C21_Witness ==
  /\ object_tree_ # Null /\ shape_tree # Null
  /\ object_tree_.children_ # <<>>
  /\ shape_tree.children_ # <<>>
  /\ \E node \in TreeNodes(shape_tree) : node.indices_ # <<>>

\* Bit of the child index i that belongs to axis a (0 or 1).
IndexBit(i, a) == (i \div AxisBit(a)) % 2

\* Points of a box: on each axis the ends, the centre and its neighbours.
Probes(b) ==
  {p \in {query_center(b)[1] - 1, query_center(b)[1], query_center(b)[1] + 1,
          b.bounds_min[1], b.bounds_max[1]}
      \X {query_center(b)[2] - 1, query_center(b)[2], query_center(b)[2] + 1,
          b.bounds_min[2], b.bounds_max[2]}
      \X {query_center(b)[3] - 1, query_center(b)[3], query_center(b)[3] + 1,
          b.bounds_min[3], b.bounds_max[3]} : point_in_bounds(b, p)}

\* The children of a subdivided node are the octants of its box, the child
\* of a point is the octant that holds it, and the octants cover the box.
OctantsTile(node) ==
  node.children_ # <<>> =>
    /\ \A i \in ChildIndices : \A a \in Axes :
         IF IndexBit(i, a) = 1
           THEN /\ node.children_[i + 1].aabb_.bounds_min[a] = query_center(node.aabb_)[a]
                /\ node.children_[i + 1].aabb_.bounds_max[a] = node.aabb_.bounds_max[a]
           ELSE /\ node.children_[i + 1].aabb_.bounds_min[a] = node.aabb_.bounds_min[a]
                /\ node.children_[i + 1].aabb_.bounds_max[a] = query_center(node.aabb_)[a]
    /\ \A p \in Probes(node.aabb_) :
         /\ point_in_bounds(node.children_[ClosestChild(node.aabb_, p) + 1].aabb_, p)
         /\ \E i \in ChildIndices : point_in_bounds(node.children_[i + 1].aabb_, p)

\* C22: the eight child boxes made by ConfigureChildren tile the parent box
\* in octants (bit0 = x >= cx, bit1 = z >= cz, bit2 = y >= cy), ClosestChild
\* uses the same encoding, every point of an internal node's box lies in the
\* box of its ClosestChild, and the child boxes together cover the parent.
C22_OctantsTile ==
  /\ \A node \in TreeNodes(object_tree_) : OctantsTile(node)
  /\ \A node \in TreeNodes(shape_tree) : OctantsTile(node)

\* The same on the trees whose boxes have exactly representable centres.
ExactOctantsTile ==
  /\ \A node \in TreeNodes(object_tree_) : OctantsTile(node)
  /\ (face_list = MeshFaces(Len(face_list))) =>
       \A node \in TreeNodes(shape_tree) : OctantsTile(node)

\* The item indices held by the nodes of a tree.
HeldIndices(tree) ==
  UNION {{node.indices_[k] : k \in 1 .. Len(node.indices_)} : node \in TreeNodes(tree)}

\* C23: subdivision never loses an item: after a build every object index of
\* the scene and every face index of the mesh is in the payload of at least
\* one leaf.
C23_NoItemLost ==
  /\ object_tree_ # Null => HeldIndices(object_tree_) = 1 .. Len(tree_objects_)
  /\ shape_tree # Null => HeldIndices(shape_tree) = 1 .. Len(face_list)

\* The same on the trees whose boxes have exactly representable centres.
ExactNoItemLost ==
  /\ object_tree_ # Null => HeldIndices(object_tree_) = 1 .. Len(tree_objects_)
  /\ (shape_tree # Null /\ face_list = MeshFaces(Len(face_list))) =>
       HeldIndices(shape_tree) = 1 .. Len(face_list)

\* The faces of the mesh that overlap the box of a node: the payload the
\* node held when its Subdivide ran.
FacesIn(node) ==
  Cardinality({j \in 1 .. Len(face_list) :
                 triangle_intersect_bounds(face_list[j], node.aabb_)})

\* C24: a mesh-BVH node stays a leaf whenever its depth is at least 4, or it
\* holds at most 16 faces, or its volume is at most 0.001, so no node is
\* deeper than 4.  A box of volume 0 is at most 0.001 in every unit of
\* length; the volume limit is stated for those boxes.
C24_MeshLeafRule ==
  \A node \in TreeNodes(shape_tree) :
    /\ node.depth_ <= kMeshMaxSubdivisionDepth
    /\ node.children_ # <<>> =>
         /\ node.depth_ < kMeshMaxSubdivisionDepth
         /\ FacesIn(node) > kMaxFaceCountPerNode
         /\ ~ZeroVolume(node.aabb_)

\* The depth and capacity limits alone.
MeshDepthAndCapacity ==
  \A node \in TreeNodes(shape_tree) :
    /\ node.depth_ <= kMeshMaxSubdivisionDepth
    /\ node.children_ # <<>> =>
         /\ node.depth_ < kMeshMaxSubdivisionDepth
         /\ FacesIn(node) > kMaxFaceCountPerNode

\* The objects of the scene that overlap the box of a node: the payload the
\* node held when its Subdivide ran.
ObjectsIn(node) ==
  Cardinality({j \in 1 .. Len(tree_objects_) :
                 bounds_intersect_bounds(GetBounds(tree_objects_[j]), node.aabb_)})

C26_IdealDepthApplied ==
  \A node \in TreeNodes(object_tree_) :
    /\ node.max_tree_depth_ = ideal_depth
    /\ node.children_ # <<>> => node.depth_ < ideal_depth

\* The part of C26 that is about which nodes are subdivided.
NoneSubdividedFromIdealDepth ==
  \A node \in TreeNodes(object_tree_) :
    node.children_ # <<>> => node.depth_ < ideal_depth

(***************************************************************************)
(* The child-stepping loop of TraceInternal, read from its log.            *)
(***************************************************************************)

\* The planes of a log entry that still fire with the smallest param.
Nearest(e) ==
  {a \in Axes : /\ e.plane_hit[a]
                /\ \A o \in Axes : e.plane_hit[o] => e.param[a] <= e.param[o]}

\* The log of one node visit: a tie between two planes that still fire ends
\* the loop with no step; otherwise the one nearest plane is crossed, its
\* bit of the child index is flipped and the plane fires no more.
LoopSteps(log) ==
  /\ Len(log) <= 4
  /\ \A k \in 1 .. Len(log) :
       /\ log[k].taken # -1 =>
            IF Cardinality(Nearest(log[k])) = 1
              THEN log[k].taken \in Nearest(log[k])
              ELSE log[k].taken = 0
       /\ log[k].taken \in {-1, 0} => k = Len(log)
       /\ (log[k].taken \in Axes /\ k < Len(log)) =>
            /\ log[k + 1].child = FlipBit(log[k].child, AxisBit(log[k].taken))
            /\ log[k + 1].plane_hit =
                 [log[k].plane_hit EXCEPT ![log[k].taken] = FALSE]
  /\ \A k, l \in 1 .. Len(log) :
       (k # l /\ log[k].taken \in Axes) => log[l].taken # log[k].taken

\* The log of a visit of an internal node of the scene BVH by the ray last
\* traced, entered with a fresh hit_info.
VisitLog(node) ==
  InternalLoop("scene", node, object_list_,
               ray_intersect_bounds(node.aabb_, trajectory), trajectory,
               NewCollision).log

Visited ==
  {node \in TreeNodes(object_tree_) :
     node.children_ # <<>> /\ ray_intersect_bounds(node.aabb_, trajectory).hit}

\* C27: in the child-stepping loop of TraceInternal a tie for the smallest
\* remaining param between two planes that still fire takes no branch of
\* the chain and ends the loop; otherwise the loop crosses the one plane
\* with the strictly smallest param, flips that axis's bit of the child
\* index and marks the plane consumed, so that a plane is crossed at most
\* once and at most four children are traced per node visit.
C27_StrictChain ==
  (last_trace # Null /\ last_trace.used_tree) =>
    \A node \in Visited : LoopSteps(VisitLog(node))

\* A visit that crossed one plane and then ended on a tie of the other two.
C27_Witness ==
  /\ last_trace # Null /\ last_trace.used_tree
  /\ \E node \in Visited :
       \E k \in 1 .. Len(VisitLog(node)) :
         /\ k > 1
         /\ VisitLog(node)[k].taken = 0
         /\ Cardinality(Nearest(VisitLog(node)[k])) = 2
         /\ VisitLog(node)[1].taken \in Axes

(***************************************************************************)
(* The traversal specification: a run traces either the scene (by the      *)
(* linear sweep, or through its BVH after Optimize) or a mesh loaded from  *)
(* a file.                                                                 *)
(***************************************************************************)
InitTraceSpec == InitBvhSpec

NextTrace ==
  \/ /\ last_call = "Add"
     /\ last_trace = Null
     /\ \E n \in MeshSizes : LoadMesh("lattice", n, TRUE)
  \/ /\ last_mesh_trace = Null
     /\ \E r \in MeshRays : \E best \in BestParams : MeshTrace(r, best)
  \/ /\ ~mesh_loaded
     /\ last_trace = Null
     /\ Optimize
  \/ /\ ~mesh_loaded
     /\ last_trace = Null
     /\ \E r \in SceneRays : SceneTrace(r)

SpecTrace == InitTraceSpec /\ [][NextTrace]_vars

\* The MeshCollision MeshTrace hands to MeshBvh::Trace.
IncomingCollision == [param |-> incoming, point |-> <<0, 0, 0>>, index |-> 0]

\* The best param after each child traced in a visit never exceeds the one
\* before it.
BestFalls(log, first) ==
  \A k \in 1 .. Len(log) :
    log[k].best <= (IF k = 1 THEN first ELSE log[k - 1].best)

\* One primitive tested against a best hit h: the best is replaced only by
\* a smaller param, and a test that returns false leaves h as it was.
ObjectStep(j, h) ==
  LET t == ObjectTrace(object_list_[j], j, trajectory, h)
  IN  /\ t.hit_info.param <= h.param
      /\ t.result => t.hit_info.param < h.param
      /\ ~t.result => t.hit_info = h

\* C28: during a traversal (mesh BVH, scene BVH or linear sweep) the best
\* param held in hit_info never increases: a primitive's hit replaces the
\* best only when its t is smaller, a node whose box entry param exceeds
\* the best is skipped, and a Trace that returns false leaves hit_info as
\* it was.
C28_BestNeverIncreases ==
  /\ last_trace # Null =>
       /\ last_trace.hit_info.param <= NewCollision.param
       /\ last_trace.result => last_trace.hit_info.param < NewCollision.param
       /\ ~last_trace.result => last_trace.hit_info = NewCollision
       /\ \A j \in 1 .. Len(object_list_) :
            ObjectStep(j, NewCollision) /\ ObjectStep(j, last_trace.hit_info)
       /\ last_trace.used_tree =>
            \A node \in Visited : BestFalls(VisitLog(node), NewCollision.param)
  /\ last_mesh_trace # Null =>
       /\ last_mesh_trace.hit_info.param <= incoming
       /\ last_mesh_trace.result => last_mesh_trace.hit_info.param < incoming
       /\ ~last_mesh_trace.result => last_mesh_trace.hit_info = IncomingCollision
       /\ \A node \in TreeNodes(shape_tree) :
            /\ ray_intersect_bounds(node.aabb_, trajectory).param > incoming =>
                 ~NodeTrace("mesh", node, face_list, trajectory, IncomingCollision).result
            /\ (node.children_ # <<>> /\ ray_intersect_bounds(node.aabb_, trajectory).hit) =>
                 BestFalls(InternalLoop("mesh", node, face_list,
                                        ray_intersect_bounds(node.aabb_, trajectory),
                                        trajectory, IncomingCollision).log,
                           incoming)

\* A mesh trace entered with a best of 32, whose ray enters the root box
\* within that best, met a face farther away and kept its best.
C28_Witness ==
  /\ last_mesh_trace # Null /\ shape_tree # Null
  /\ incoming < DefaultParam
  /\ ~last_mesh_trace.result
  /\ \E j \in 1 .. Len(face_list) :
       /\ ray_intersect_triangle(face_list[j], trajectory).hit
       /\ ray_intersect_triangle(face_list[j], trajectory).param > incoming
  /\ ray_intersect_bounds(shape_tree.aabb_, trajectory).hit
  /\ ray_intersect_bounds(shape_tree.aabb_, trajectory).param <= incoming

-----------------------------------------------------------------------------
(***************************************************************************)
(* The descriptors of a TraceResult.                                       *)
(***************************************************************************)

\* The fields of a TraceResult other than ray_count.
Descriptors(result) ==
  [color |-> result.color, normal |-> result.normal,
   material_id |-> result.material_id, depth |-> result.depth]

\* What the depth-0 TraceStep of the sample of pixel p, jitter a, stores
\* when it returns output: the sky's descriptors on a miss, else those of
\* the primary collision.
PrimaryDescriptors(p, a, output) ==
  LET o == scene.primary[p][a]
      hit == Collide(o, a)
  IN  IF o = 0 THEN SkyResult(output)
      ELSE [color |-> output, normal |-> hit.surface_normal,
            material_id |-> hit.surface_material,
            depth |-> Distance(hit.point, a)]

\* C29: a step of a TraceStep call of depth >= 1 changes no field of the
\* TraceResult but ray_count, and once TracePixel has returned the color,
\* normal, material_id and depth are those of the primary hit, or of the
\* sky when the primary ray struck nothing.
C29_PrimaryDescriptors ==
  /\ [][path_depth >= 1
          => Descriptors(path_result') = Descriptors(path_result)]_vars
  /\ [](path_phase = "done"
          => Descriptors(path_result) =
               PrimaryDescriptors(path_pixel[1], path_pixel[2],
                                  path_returned))

\* Between two mirrors the sample has returned after 32 bounces, and the
\* result holds the descriptors of the first mirror, the second mirror
\* being the one struck last.
C29_Witness ==
  /\ scene = MirrorScene
  /\ path_phase = "done"
  /\ path_result.ray_count > 2
  /\ scene.after[1][path_result.ray_count - 1] = 2
  /\ path_result.material_id = MaterialId(1)
  /\ path_result.normal = ObjectNormal(1)

-----------------------------------------------------------------------------
(***************************************************************************)
(* The texture specification: materials are made, each loads one bitmap    *)
(* file and is sampled.                                                    *)
(***************************************************************************)
InitTextureSpec == InitLoadSpec

SpecTexture == InitTextureSpec /\ [][NextTexture]_vars

\* LoadBitmap returned false on the file the material named.
LoadFailed == texture_load # Null /\ ~texture_load.returned

\* C30: after a LoadBitmap that failed the texture of the material has an
\* empty buffer, and a sample of the material's diffuse term is its plain
\* diffuse colour.
C30_FailedLoadLeavesEmpty ==
  LoadFailed =>
    /\ diffuse_map_.buffer = <<>>
    /\ material_diffuse # Null => material_diffuse.color = diffuse_

\* A failure before the pixel rows (a header that cannot be read, a bit
\* depth other than 24) leaves the buffer empty and the plain colour in
\* use.
HeaderFailureLeavesEmpty ==
  (LoadFailed /\ (~texture_load.file.file_header
                    \/ ~texture_load.file.info_header
                    \/ texture_load.file.bit_count # 24)) =>
    /\ diffuse_map_.buffer = <<>>
    /\ material_diffuse # Null => material_diffuse.color = diffuse_

\* A failure in the pixel rows leaves a buffer of the full size of the
\* image, which the material samples.
RowFailureLeavesBuffer ==
  (LoadFailed /\ texture_load.file.file_header
              /\ texture_load.file.info_header
              /\ texture_load.file.bit_count = 24) =>
    /\ Len(diffuse_map_.buffer) =
         texture_load.file.width * texture_load.file.height * 3
    /\ HasTexture(diffuse_map_)

\* After a failed load every sample of the material's diffuse term is its
\* plain diffuse colour.
FailedLoadSamplesPlainColour ==
  (LoadFailed /\ material_diffuse # Null) => material_diffuse.color = diffuse_
=============================================================================
